---------------------------- MODULE Spec2Model ----------------------------
(***************************************************************************)
(* A model of the quantitative core of gopaddock:                          *)
(*   services/scoring_v2.py       score_v2          (scoring engine)       *)
(*   services/race_prob_model.py  simulate_finish_probs (Monte Carlo)      *)
(*   services/race_match_v2.py    compute_match_M   (track/race match)     *)
(*   services/gait_features_v2.py extract_gait_features (video to gait)    *)
(*   services/evaluator.py        evaluate_horse    (the pipeline)         *)
(*   services/video_ai_client.py  analyze_video     (remote call gate)     *)
(*                                                                         *)
(* Python floats are modelled as exact rationals [n |-> num, d |-> den]    *)
(* in lowest terms with d > 0; the IEEE value NaN is the record with       *)
(* d = 0 (every comparison with it is false, every operation on it gives   *)
(* it back); Python's None is the record with d = -1.                      *)
(***************************************************************************)
EXTENDS Integers, Sequences, FiniteSets, TLC

----------------------------------------------------------------------------
(* Numbers *)

Abs(a) == IF a < 0 THEN -a ELSE a

RECURSIVE GCD(_, _)
GCD(a, b) == IF b = 0 THEN a ELSE GCD(b, a % b)

NaN == [n |-> 0, d |-> 0]
None == [n |-> 0, d |-> -1]

IsNaN(x) == x.d = 0

\* The rational n/d in lowest terms, d # 0.
R(n, d) ==
    LET g == GCD(Abs(n), Abs(d))
        s == IF d < 0 THEN -1 ELSE 1
    IN  [n |-> s * (n \div g), d |-> s * (d \div g)]

\* The integer k as a float.
Fl(k) == [n |-> k, d |-> 1]

Add(x, y) ==
    IF IsNaN(x) \/ IsNaN(y) THEN NaN
    ELSE LET g == GCD(x.d, y.d)
         IN  R(x.n * (y.d \div g) + y.n * (x.d \div g), (x.d \div g) * y.d)

Neg(x) == IF IsNaN(x) THEN NaN ELSE [n |-> -x.n, d |-> x.d]

Sub(x, y) == Add(x, Neg(y))

Mul(x, y) ==
    IF IsNaN(x) \/ IsNaN(y) THEN NaN
    ELSE LET g1 == GCD(Abs(x.n), y.d)
             g2 == GCD(Abs(y.n), x.d)
         IN  [n |-> (x.n \div g1) * (y.n \div g2),
              d |-> (x.d \div g2) * (y.d \div g1)]

\* x / y for y # 0 (every divisor in the modelled code is a non-zero constant).
Div(x, y) ==
    IF IsNaN(x) \/ IsNaN(y) THEN NaN
    ELSE Mul(x, R(y.d, y.n))

\* x < y as Python evaluates it on floats: false when either side is NaN.
\* (Integer parts first, then the fractional parts over the common
\* denominator, to keep the products small.)
Lt(x, y) ==
    /\ ~IsNaN(x)
    /\ ~IsNaN(y)
    /\ LET fx == x.n \div x.d
           fy == y.n \div y.d
           g == GCD(x.d, y.d)
       IN  \/ fx < fy
           \/ /\ fx = fy
              /\ (x.n % x.d) * (y.d \div g) < (y.n % y.d) * (x.d \div g)

Gt(x, y) == Lt(y, x)

Le(x, y) == ~IsNaN(x) /\ ~IsNaN(y) /\ ~Lt(y, x)

Ge(x, y) == Le(y, x)

\* lo <= x <= hi
Within(x, lo, hi) == Le(lo, x) /\ Le(x, hi)

----------------------------------------------------------------------------
(* services/scoring_config.py: normalization thresholds *)

P0 == R(16, 10)
P1 == R(24, 10)
S0 == R(35, 10)
S1 == R(60, 10)
W0 == R(25, 100)
W1 == R(60, 100)
A0 == R(6, 100)
A1 == R(18, 100)

PR0 == R(21, 10)
PR1 == R(27, 10)
SR0 == R(38, 10)
SR1 == R(55, 10)
WR0 == R(30, 100)
WR1 == R(70, 100)
AR0 == R(8, 100)
AR1 == R(22, 100)

V0 == R(25, 100)
V1 == R(70, 100)

HB0 == R(135, 100)
HIND_ASYM0 == R(14, 100)
FORE_ASYM0 == R(14, 100)

DELTA_MAX == R(18, 1)

CAL_A0 == R(-15, 100)
CAL_A1 == R(1, 1)
CAL_A2 == R(80, 100)

----------------------------------------------------------------------------
(* services/scoring_v2.py *)

\* A clamp that lost its upper limit.
ClampNoUpper(x, lo, hi) == IF Lt(x, lo) THEN lo ELSE x

\* lo if x < lo else hi if x > hi else x   (NaN passes through unchanged)
clamp(x, lo, hi) == IF Lt(x, lo) THEN lo ELSE IF Gt(x, hi) THEN hi ELSE x

sat(x, a, b) ==
    IF Le(b, a) THEN Fl(0)
    ELSE clamp(Div(Sub(x, a), Sub(b, a)), Fl(0), Fl(1))

\* A rev that leaves its argument as it is.
RevNone(u) == u

rev(u) == Sub(Fl(1), u)

\* dict.get(key, 0.0) on a roi_asym mapping whose absent keys hold None
RoiGet(roi, key) == IF roi[key] = None THEN Fl(0) ELSE roi[key]

\* `if roi_asym:`  -- neither None nor an empty dict
RoiTruthy(roi) == roi # None /\ \E k \in DOMAIN roi : roi[k] # None

\* A confidence that is the clamped quality itself.
CVidLinear(q) == clamp(Div(q, Fl(100)), Fl(0), Fl(1))

\* 0.65 + 0.35 * clamp(q/100.0, 0.0, 1.0)
CVid(q) ==
    Add(R(65, 100), Mul(R(35, 100), clamp(Div(q, Fl(100)), Fl(0), Fl(1))))

\* A gait total that leaves the confidence out.
GaitTotalNoConf(GaitTotal_raw, C_vid) == GaitTotal_raw

\* GaitTotal = GaitTotal_raw * C_vid
GaitTotalOf(GaitTotal_raw, C_vid) == Mul(GaitTotal_raw, C_vid)

\* A half-width that ignores the quality.
DeltaFixed(q) == DELTA_MAX

\* Delta = DELTA_MAX * (1.0 - clamp(q/100.0, 0.0, 1.0))
DeltaOf(q) ==
    Mul(DELTA_MAX, Sub(Fl(1), clamp(Div(q, Fl(100)), Fl(0), Fl(1))))

\* A weight that trusts the behavioural assessment fully.
KAiFull(AiConf) == Fl(1)

\* K_ai = 0.50 + 0.50 * clamp(ai_state.AiConf, 0.0, 1.0)
KAi(AiConf) == Add(R(50, 100), Mul(R(50, 100), clamp(AiConf, Fl(0), Fl(1))))

\* A risk in which the two clinical boosts share one 10.
RGaitOneBoost(rp, ra, rw, rs, headbob_suspect, hind_asym_suspect) ==
    LET R0 == Add(Add(Add(Mul(R(28, 100), rp), Mul(R(28, 100), ra)),
                      Mul(R(22, 100), rw)), Mul(R(12, 100), rs))
        R1 == IF headbob_suspect \/ hind_asym_suspect
              THEN Add(R0, Fl(10)) ELSE R0
    IN  clamp(R1, Fl(0), Fl(100))

\* R_gait (lines 83-88)
RGait(rp, ra, rw, rs, headbob_suspect, hind_asym_suspect) ==
    LET R0 == Add(Add(Add(Mul(R(28, 100), rp), Mul(R(28, 100), ra)),
                      Mul(R(22, 100), rw)), Mul(R(12, 100), rs))
        R1 == IF headbob_suspect THEN Add(R0, Fl(10)) ELSE R0
        R2 == IF hind_asym_suspect THEN Add(R1, Fl(10)) ELSE R1
    IN  clamp(R2, Fl(0), Fl(100))

\* A fallback match that weighs the stamina blend and the surface fit alike.
MatchFallbackEven(S, W, ped_stamina, ped_surfacefit) ==
    LET Dm == Add(Mul(R(5, 10), S), Mul(R(5, 10), ped_stamina))
    IN  clamp(Add(Add(Mul(R(40, 100), Dm), Mul(R(40, 100), ped_surfacefit)),
                  Mul(R(20, 100), W)),
              Fl(0), Fl(100))

\* M when race_match_override is None (lines 114-117)
MatchFallback(S, W, ped_stamina, ped_surfacefit) ==
    LET Dm == Add(Mul(R(5, 10), S), Mul(R(5, 10), ped_stamina))
        Sm == ped_surfacefit
        Cm == W
    IN  clamp(Add(Add(Mul(R(45, 100), Dm), Mul(R(35, 100), Sm)),
                  Mul(R(20, 100), Cm)),
              Fl(0), Fl(100))

score_v2(a) ==
    LET \* Confidence
        C_vid == CVid(a.q)
        \* Item scores
        P == Mul(Fl(100), rev(sat(a.pitch_hz, P0, P1)))
        S == Mul(Fl(100), sat(a.stride_index, S0, S1))
        W == Mul(Fl(100), rev(sat(a.wobble, W0, W1)))
        A == Mul(Fl(100), rev(sat(a.asym, A0, A1)))
        V == IF a.speed_proxy = None THEN Fl(50)
             ELSE Mul(Fl(100), sat(a.speed_proxy, V0, V1))
        G == Add(Add(Add(Add(Mul(R(18, 100), P), Mul(R(30, 100), S)),
                         Mul(R(22, 100), W)), Mul(R(18, 100), A)),
                 Mul(R(12, 100), V))
        \* Risk parts
        rp == Mul(Fl(100), sat(a.pitch_hz, PR0, PR1))
        rw == Mul(Fl(100), sat(a.wobble, WR0, WR1))
        ra == Mul(Fl(100), sat(a.asym, AR0, AR1))
        rs == Mul(Fl(100), rev(sat(a.stride_index, SR0, SR1)))
        \* Clinical flags
        headbob_suspect == a.headbob_ratio # None /\ Gt(a.headbob_ratio, HB0)
        hind_asym_suspect ==
            RoiTruthy(a.roi_asym) /\ Gt(RoiGet(a.roi_asym, "hind"), HIND_ASYM0)
        fore_asym_suspect ==
            RoiTruthy(a.roi_asym) /\ Gt(RoiGet(a.roi_asym, "head"), FORE_ASYM0)
        R_gait == RGait(rp, ra, rw, rs, headbob_suspect, hind_asym_suspect)
        \* AI state integration
        t == clamp(Div(a.ai_state.T, Fl(100)), Fl(0), Fl(1))
        x == clamp(Div(a.ai_state.X, Fl(100)), Fl(0), Fl(1))
        sw == clamp(Div(a.ai_state.SW, Fl(100)), Fl(0), Fl(1))
        br == clamp(Div(a.ai_state.BR, Fl(100)), Fl(0), Fl(1))
        co == clamp(Div(a.ai_state.CO, Fl(100)), Fl(0), Fl(1))
        f == clamp(Div(a.ai_state.F, Fl(100)), Fl(0), Fl(1))
        K_ai == KAi(a.ai_state.AiConf)
        PaddockState ==
            Mul(Fl(100),
                clamp(Add(Add(Add(Mul(R(30, 100), t), Mul(R(25, 100), f)),
                              Mul(R(30, 100), co)),
                          Mul(R(15, 100), Sub(Fl(1), x))),
                      Fl(0), Fl(1)))
        PaddockState_ ==
            Add(Mul(Sub(Fl(1), K_ai), Fl(50)), Mul(K_ai, PaddockState))
        Stress == clamp(Add(Add(Mul(R(45, 100), x), Mul(R(35, 100), sw)),
                            Mul(R(20, 100), br)),
                        Fl(0), Fl(1))
        StressRisk_ == Mul(Mul(Fl(100), K_ai), Stress)
        G_adj == clamp(Add(G, Mul(R(15, 100), Sub(PaddockState_, Fl(50)))),
                       Fl(0), Fl(100))
        R_adj == clamp(Add(R_gait, Mul(R(30, 100), StressRisk_)),
                       Fl(0), Fl(100))
        \* Combine gait total
        GaitTotal_raw == clamp(Sub(G_adj, Mul(R(35, 100), R_adj)),
                               Fl(0), Fl(100))
        GaitTotal == GaitTotalOf(GaitTotal_raw, C_vid)
        \* Match (simple, locked)
        M == IF a.race_match_override = None
             THEN MatchFallback(S, W, a.ped_stamina, a.ped_surfacefit)
             ELSE clamp(a.race_match_override, Fl(0), Fl(100))
        \* Total
        Total_raw == Add(Add(Mul(R(65, 100), GaitTotal),
                             Mul(R(20, 100), a.ped_score)),
                         Mul(R(15, 100), M))
        Total == clamp(Sub(Total_raw, Mul(R(10, 100), R_adj)),
                       Fl(0), Fl(100))
        \* CI widens with low quality
        Delta == DeltaOf(a.q)
        CI == <<clamp(Sub(Total, Delta), Fl(0), Fl(100)),
                clamp(Add(Total, Delta), Fl(0), Fl(100))>>
        \* Calibrated probabilities.  Place = 55*sigmoid(z) and
        \* Contend = 25*sigmoid(z - 0.7); sigmoid is strictly increasing, so
        \* each is kept as its logit, which determines it.
        z == Add(Add(CAL_A0,
                     Mul(CAL_A1, Div(Sub(Total, Fl(60)), Fl(8)))),
                 Mul(CAL_A2, Div(Sub(M, Fl(60)), Fl(10))))
    IN  [item_scores |-> [P |-> P, S |-> S, W |-> W, A |-> A, V |-> V],
         gait |-> [G |-> G, G_adj |-> G_adj, GaitTotal |-> GaitTotal],
         risk |-> [R_gait |-> R_gait, R_adj |-> R_adj,
                   stress_risk |-> StressRisk_,
                   paddock_state |-> PaddockState_],
         match |-> [M |-> M],
         total |-> [Total |-> Total, CI |-> CI, C_vid |-> C_vid],
         prob |-> [PlaceLogit |-> z, ContendLogit |-> Sub(z, R(7, 10))],
         clinical_flags |-> [headbob_suspect |-> headbob_suspect,
                             hind_asym_suspect |-> hind_asym_suspect,
                             fore_asym_suspect |-> fore_asym_suspect]]

----------------------------------------------------------------------------
(* Inputs of score_v2 *)

\* The decimal k/100.
Pct(k) == R(k, 100)

Gait(pitch, stride, wob, asy, speed, roi, headbob) ==
    [pitch_hz |-> pitch, stride_index |-> stride, wobble |-> wob, asym |-> asy,
     speed_proxy |-> speed, roi_asym |-> roi, headbob_ratio |-> headbob]

\* A roi_asym dict; an absent key holds None.
Roi(head, trunk, hind) == [head |-> head, trunk |-> trunk, hind |-> hind]

AiState(T, X, SW, BR, CO, F, AiConf) ==
    [T |-> T, X |-> X, SW |-> SW, BR |-> BR, CO |-> CO, F |-> F,
     AiConf |-> AiConf]

\* PaddockAIState(): every axis 50, confidence 0.3
DefaultAiState == AiState(Fl(50), Fl(50), Fl(50), Fl(50), Fl(50), Fl(50), Pct(30))

Ped(score, stamina, surfacefit) ==
    [ped_score |-> score, ped_stamina |-> stamina, ped_surfacefit |-> surfacefit]

\* Quality values: inside 0..100, at its ends and outside it.
Qualities == {Fl(-20), Fl(0), Fl(10), Fl(80), Fl(100), Fl(130)}

Gaits ==
    { Gait(Fl(2), Pct(55), Pct(20), Pct(8), None, None, None),
      Gait(Pct(150), Pct(650), Pct(10), Pct(5), Pct(80),
           Roi(Pct(5), Pct(5), Pct(5)), Fl(1)),
      Gait(Fl(3), Fl(3), Pct(80), Pct(30), Pct(10),
           Roi(Pct(20), None, Pct(20)), Pct(150)),
      Gait(Pct(225), Pct(465), Pct(39), Pct(15), Pct(52),
           Roi(None, None, None), Pct(135)),
      Gait(Fl(-1), Fl(100), Pct(-50), Fl(0), Fl(-3),
           Roi(None, Pct(50), Pct(14)), None) }

AiStates ==
    { DefaultAiState,
      AiState(Fl(100), Fl(0), Fl(0), Fl(0), Fl(100), Fl(100), Fl(1)),
      AiState(Fl(-10), Fl(150), Fl(100), Fl(100), Fl(0), Fl(0), Pct(150)),
      AiState(Fl(80), Fl(20), Fl(30), Fl(40), Fl(70), Fl(60), Fl(0)) }

\* Pedigree scores as analyze_pedigree_strict produces them: clamped to 0..100.
Peds ==
    { Ped(Fl(55), Fl(50), Fl(50)), Ped(Fl(0), Fl(0), Fl(0)),
      Ped(Fl(100), Fl(100), Fl(100)) }

\* Pedigree scores no producer in the repository yields.
WidePeds == { Ped(Fl(-150), Fl(-50), Fl(300)), Ped(Fl(250), Fl(200), Fl(-20)) }

Overrides == {None, Fl(0), Fl(60), Fl(150)}

MkArgs(q, g, ai, ped, ov) ==
    [q |-> q, pitch_hz |-> g.pitch_hz, stride_index |-> g.stride_index,
     wobble |-> g.wobble, asym |-> g.asym, speed_proxy |-> g.speed_proxy,
     roi_asym |-> g.roi_asym, headbob_ratio |-> g.headbob_ratio,
     ai_state |-> ai, ped_score |-> ped.ped_score,
     ped_stamina |-> ped.ped_stamina, ped_surfacefit |-> ped.ped_surfacefit,
     race_match_override |-> ov]

ArgSpace ==
    { MkArgs(q, g, ai, ped, ov) :
        q \in Qualities, g \in Gaits, ai \in AiStates, ped \in Peds,
        ov \in Overrides }

WideArgSpace ==
    { MkArgs(q, g, ai, ped, ov) :
        q \in Qualities, g \in Gaits, ai \in AiStates,
        ped \in Peds \cup WidePeds, ov \in Overrides }

\* The arguments a second call changes, one at a time, and the values it
\* gives them: the band edges of scoring_config.py, values between and
\* beyond them, None where the signature allows it, and NaN.
VaryKeys ==
    {"q", "pitch_hz", "stride_index", "wobble", "asym", "speed_proxy",
     "roi_asym", "headbob_ratio", "ped_score", "ped_stamina",
     "ped_surfacefit", "race_match_override", "ai_state"}

VaryValues(key) ==
    CASE key = "q" -> Qualities \cup {NaN}
      [] key = "pitch_hz" ->
            {Fl(1), P0, Fl(2), PR0, Pct(225), P1, PR1, Fl(3), NaN}
      [] key = "stride_index" ->
            {Pct(55), Fl(3), S0, SR0, Pct(465), SR1, S1, Fl(7), NaN}
      [] key = "wobble" ->
            {Pct(10), W0, WR0, Pct(39), W1, WR1, Pct(80), NaN}
      [] key = "asym" ->
            {Fl(0), A0, AR0, Pct(15), A1, AR1, Pct(30), NaN}
      [] key = "speed_proxy" ->
            {None, Pct(10), V0, Pct(52), V1, Pct(80), NaN}
      [] key = "roi_asym" ->
            {None, Roi(None, None, None), Roi(Pct(5), Pct(5), Pct(5)),
             Roi(Pct(20), Pct(5), Pct(5)), Roi(Pct(5), None, Pct(20)),
             Roi(Pct(20), None, Pct(20)), Roi(None, None, Pct(14)),
             Roi(Pct(14), None, None), Roi(Pct(20), None, None),
             Roi(None, None, Pct(15))}
      [] key = "headbob_ratio" ->
            {None, Fl(1), Pct(135), Pct(136), Pct(150)}
      [] key = "ped_score" -> {Fl(0), Fl(40), Fl(55), Fl(100)}
      [] key = "ped_stamina" -> {Fl(0), Fl(50), Fl(100)}
      [] key = "ped_surfacefit" -> {Fl(0), Fl(50), Fl(100)}
      [] key = "race_match_override" -> Overrides \cup {Fl(30)}
      [] key = "ai_state" ->
            { [ai EXCEPT !.AiConf = c] :
                ai \in {DefaultAiState,
                        AiState(Fl(80), Fl(20), Fl(30), Fl(40), Fl(70), Fl(60),
                                Fl(0)),
                        AiState(Fl(20), Fl(100), Fl(60), Fl(80), Fl(20), Fl(40),
                                Fl(0))},
                c \in {Fl(0), Pct(30), Fl(1), Pct(150)} }

VaryArgSpace ==
    { MkArgs(q, g, ai, ped, ov) :
        q \in {Fl(10), Fl(80)}, g \in Gaits,
        ai \in {DefaultAiState,
                AiState(Fl(80), Fl(20), Fl(30), Fl(40), Fl(70), Fl(60), Fl(0))},
        ped \in {Ped(Fl(55), Fl(50), Fl(50)), Ped(Fl(100), Fl(100), Fl(100))},
        ov \in {None, Fl(60)} }

----------------------------------------------------------------------------
(* State *)

VARIABLES
    args,   \* keyword arguments of the latest score_v2 call
    res,    \* what that call returned; NoRes while it has not returned
    prev,   \* the call before it, [args, res]; NoCall when there was none
    ncalls, \* score_v2 calls that have returned
    rng,        \* state of the process-global generator of module `random`
    otherDraws, \* draws other code has taken from that generator
    simPc,      \* simulate_finish_probs: "idle", "loop" (in the trial loop), "done"
    simArgs,    \* keyword arguments of the latest simulate_finish_probs call
    loc,        \* its locals: mus, m, nn, win, top3, top5, rank_sum, and the
                \* trials completed (i) and draws taken (ndraws) so far
    simRes,     \* what it returned
    simPrev,    \* the call before it, [args, res]
    simCalls,   \* simulate_finish_probs calls made
    matchArgs,  \* arguments of the compute_match_M call
    matchLoc,   \* its locals at the return statement
    matchRes,   \* what it returned; NoRes while it has not returned
    matchPrev,  \* the call before it, [args, res]; NoCall when there was none
    gfPc,       \* extract_gait_features: "idle", "read" (in the read loop), "done"
    gfArgs,     \* the video source behind video_path, and max_frames
    gfLoc,      \* its locals: frames read, and the cadence step's peak lag
    gfRes,      \* what it returned or raised; NoRes before that
    evPc,       \* evaluate_horse: "idle", "extract", "signals", "pedigree",
                \* "match", "returned", "raised"
    evArgs,     \* its keyword arguments
    evLoc,      \* its locals: gait and the signals read from it, ped
    evRes,      \* what it returned or raised; NoRes before that
    vcEnv,      \* the process environment read by video_ai_client
    vcSem,      \* the module global _SEM: 0 for None, else a semaphore object
    vcPermits,  \* the counters of the semaphore objects created so far
    vcPc,       \* per thread, where its analyze_video call stands
    vcLoc       \* per thread, the locals of that call

scoreVars == <<args, res, prev, ncalls>>
simVars == <<rng, otherDraws, simPc, simArgs, loc, simRes, simPrev, simCalls>>
matchVars == <<matchArgs, matchLoc, matchRes, matchPrev>>
gaitVars == <<gfPc, gfArgs, gfLoc, gfRes>>
evalVars == <<evPc, evArgs, evLoc, evRes>>
clientVars == <<vcEnv, vcSem, vcPermits, vcPc, vcLoc>>
vars == <<scoreVars, simVars, matchVars, gaitVars, evalVars, clientVars>>

\* score_v2 calls followed in one behaviour.
MaxCalls == 2

NoRes == [returned |-> FALSE]
NoCall == [called |-> FALSE]

----------------------------------------------------------------------------
(* services/race_prob_model.py *)

\* The process-global generator behind random.gauss is a deterministic
\* generator with hidden state: here a full-period congruential generator
\* over 0..RngMod-1 whose draw is a standard-normal deviate rounded to
\* -2..2.
RngMod == 16

RngStep(r) == (5 * r + 3) % RngMod

RECURSIVE RngStepN(_, _)
RngStepN(r, k) == IF k = 0 THEN r ELSE RngStepN(RngStep(r), k - 1)

Deviate(r) == (r % 5) - 2

\* random.gauss(mu, sigma) as the j-th draw after generator state r
Gauss(mu, sigma, r, j) == mu + sigma * Deviate(RngStepN(r, j - 1))

Max(a, b) == IF a > b THEN a ELSE b

\* An entrant with a rating, and one without.
Rated(x) == [name |-> "opp", rating |-> x]
Unrated == [name |-> "opp"]

\* entrants or []
Opp(entrants) == IF entrants.isNone THEN <<>> ELSE entrants.list

\* A default rating of zero for an entrant without one.
RatingOfZero(e) == IF "rating" \in DOMAIN e THEN e.rating ELSE 0

\* e.get("rating", 50.0)
RatingOf(e) == IF "rating" \in DOMAIN e THEN e.rating ELSE 50

\* mus = [float(our_mu)] + [float(e.get("rating", 50.0)) for e in opp]
\* (Python's index 0, the subject, is index 1 here.)
Mus(our_mu, entrants) ==
    <<our_mu>> \o [k \in 1..Len(Opp(entrants)) |-> RatingOf(Opp(entrants)[k])]

\* A trial count with a floor of 100.
TrialsLowFloor(n) == Max(100, n)

\* nn = int(max(200, n))
Trials(n) == Max(200, n)

\* perf = [random.gauss(mu, sigma) for mu in mus]
Perf(mus, sigma, r) == [k \in 1..Len(mus) |-> Gauss(mus[k], sigma, r, k)]

\* Where sorted(..., reverse=True) puts index k: behind every index with a
\* larger key and, the sort being stable, behind the earlier indices with an
\* equal key.
PlaceDesc(perf, k) ==
    1 + Cardinality({j \in 1..Len(perf) : perf[j] > perf[k]})
      + Cardinality({j \in 1..(k - 1) : perf[j] = perf[k]})

\* order = sorted(range(m), key=lambda i: perf[i], reverse=True)
SortedDesc(perf) ==
    [p \in 1..Len(perf) |-> CHOOSE k \in 1..Len(perf) : PlaceDesc(perf, k) = p]

\* A rank that places the subject behind every opponent it ties with.
RankTiesLose(perf) ==
    1 + Cardinality({j \in 2..Len(perf) : perf[j] >= perf[1]})

\* r = order.index(0) + 1
Rank(perf) == CHOOSE p \in 1..Len(perf) : SortedDesc(perf)[p] = 1

\* A top-5 test that stops at rank 4.
Top5HitUpTo4(r) == r <= 4

\* A top-3 test that admits only rank 3 and worse.
Top3HitWrong(r) == r >= 3

WinHit(r) == r = 1
Top3Hit(r) == r <= 3
Top5Hit(r) == r <= 5

\* The early-return test with the wrong limit.
NoOpponentsWrong(m) == m <= 0

\* if m <= 1
NoOpponents(m) == m <= 1

\* ranks is not a local of the code: it records how many of the completed
\* trials gave the subject each rank 1..m.
NoLoc == [mus |-> <<>>, m |-> 0, nn |-> 0, i |-> 0, win |-> 0, top3 |-> 0,
          top5 |-> 0, rank_sum |-> 0, ndraws |-> 0, ranks |-> <<>>]

NoSimArgs == [our_mu |-> 0, entrants |-> [isNone |-> TRUE, list |-> <<>>],
              n |-> 0, sigma |-> 0]

SimInput(our_mu, entrants, sigma) ==
    [our_mu |-> our_mu, entrants |-> entrants, sigma |-> sigma]

NoEntrants == [isNone |-> TRUE, list |-> <<>>]
Entrants(seq) == [isNone |-> FALSE, list |-> seq]
Ratings(seq) == Entrants([k \in 1..Len(seq) |-> Rated(seq[k])])

\* Fields: none (None and []), one far weaker opponent, an even opponent,
\* ties with an unrated opponent, and fields of 5, 6 and 7 runners.
SimInputs ==
    { SimInput(50, NoEntrants, 10),
      SimInput(90, Entrants(<<>>), 0),
      SimInput(90, Ratings(<<30>>), 10),
      SimInput(50, Ratings(<<50>>), 10),
      SimInput(50, Entrants(<<Rated(50), Unrated>>), 0),
      SimInput(50, Ratings(<<60, 55, 50, 45, 40>>), 10),
      SimInput(50, Ratings(<<60, 55, 50, 45, 40>>), 0),
      SimInput(30, Entrants(<<Rated(90), Rated(90), Rated(90), Unrated>>),
               10),
      SimInput(50, Ratings(<<55, 55, 50, 50, 45, 45>>), 10),
      SimInput(40, Ratings(<<90, 80, 70, 60, 50, 45>>), 0) }

\* Requested trial counts: below, at and above the floor, zero and negative.
TrialCounts == {-5, 0, 150, 203}

\* simulate_finish_probs calls followed in one behaviour.
MaxSimCalls == 2

\* Draws other code takes from the global generator in one behaviour.
MaxOtherDraws == 1

SimIdle ==
    /\ rng = 0
    /\ otherDraws = 0
    /\ simPc = "idle"
    /\ simArgs = NoSimArgs
    /\ loc = NoLoc
    /\ simRes = NoRes
    /\ simPrev = NoCall
    /\ simCalls = 0

\* Entry of simulate_finish_probs up to the loop (lines 17-28).
SimEnter(a) ==
    LET mus == Mus(a.our_mu, a.entrants)
        m == Len(mus)
    IN  /\ simArgs' = a
        /\ simCalls' = simCalls + 1
        /\ IF NoOpponents(m)
           THEN /\ simPc' = "done"
                /\ loc' = [NoLoc EXCEPT !.mus = mus, !.m = m]
                /\ simRes' = [ok |-> TRUE, n |-> a.n, field_size |-> 1,
                              win |-> Fl(1), top3 |-> Fl(1), top5 |-> Fl(1),
                              expected_rank |-> Fl(1), sigma |-> a.sigma]
           ELSE /\ simPc' = "loop"
                /\ loc' = [NoLoc EXCEPT !.mus = mus, !.m = m,
                                        !.nn = Trials(a.n),
                                        !.ranks = [k \in 1..m |-> 0]]
                /\ simRes' = NoRes
        /\ UNCHANGED <<rng, otherDraws>>

\* A first call.
SimCall(a) ==
    /\ simPc = "idle"
    /\ simPrev' = simPrev
    /\ SimEnter(a)
    /\ UNCHANGED <<scoreVars, matchVars, gaitVars, evalVars, clientVars>>

\* The caller calls again with identical arguments.
SimRepeat ==
    /\ simPc = "done"
    /\ simCalls < MaxSimCalls
    /\ simPrev' = [args |-> simArgs, res |-> simRes]
    /\ SimEnter(simArgs)
    /\ UNCHANGED <<scoreVars, matchVars, gaitVars, evalVars, clientVars>>

\* One iteration of `for _ in range(nn)` (lines 29-36).
SimTrial ==
    /\ simPc = "loop"
    /\ loc.i < loc.nn
    /\ LET perf == Perf(loc.mus, simArgs.sigma, rng)
           r == Rank(perf)
       IN  /\ loc' = [loc EXCEPT
                        !.i = @ + 1,
                        !.ndraws = @ + loc.m,
                        !.rank_sum = @ + r,
                        !.ranks[r] = @ + 1,
                        !.win = IF WinHit(r) THEN @ + 1 ELSE @,
                        !.top3 = IF Top3Hit(r) THEN @ + 1 ELSE @,
                        !.top5 = IF Top5Hit(r) THEN @ + 1 ELSE @]
           /\ rng' = RngStepN(rng, loc.m)
    /\ UNCHANGED <<otherDraws, simPc, simArgs, simRes, simPrev, simCalls>>
    /\ UNCHANGED <<scoreVars, matchVars, gaitVars, evalVars, clientVars>>

\* The loop is exhausted: build the result (lines 38-47).
SimReturn ==
    /\ simPc = "loop"
    /\ loc.i >= loc.nn
    /\ simPc' = "done"
    /\ simRes' = [ok |-> TRUE, n |-> loc.nn, field_size |-> loc.m,
                  win |-> R(loc.win, loc.nn), top3 |-> R(loc.top3, loc.nn),
                  top5 |-> R(loc.top5, loc.nn),
                  expected_rank |-> R(loc.rank_sum, loc.nn),
                  sigma |-> simArgs.sigma]
    /\ UNCHANGED <<rng, otherDraws, simArgs, loc, simPrev, simCalls>>
    /\ UNCHANGED <<scoreVars, matchVars, gaitVars, evalVars, clientVars>>

\* Other code of the process draws from the global generator between calls.
OtherDraw ==
    /\ simPc \in {"idle", "done"}
    /\ otherDraws < MaxOtherDraws
    /\ rng' = RngStep(rng)
    /\ otherDraws' = otherDraws + 1
    /\ UNCHANGED <<simPc, simArgs, loc, simRes, simPrev, simCalls>>
    /\ UNCHANGED <<scoreVars, matchVars, gaitVars, evalVars, clientVars>>

----------------------------------------------------------------------------
(* services/race_match_v2.py: compute_match_M *)

\* A dictionary key that is absent: dict.get returns its default for it. (A
\* key that is present with the value None reads as None.)
Missing == [n |-> 0, d |-> -2]

\* An absent, None or empty text; `x or y` skips all three alike.
NoText == ""

\* The non-ASCII literals of the source are written here in ASCII:
\*   "ja_shiba" U+829D, "ja_daato" U+30C0 U+30FC U+30C8, "ja_suna" U+7802,
\*   "ja_migi" U+53F3, "ja_migimawari" U+53F3 U+56DE U+308A,
\*   "ja_hidari" U+5DE6, "ja_hidarimawari" U+5DE6 U+56DE U+308A,
\*   "ja_komawari" U+5C0F U+56DE U+308A, "ja_oomawari" U+5927 U+56DE U+308A,
\*   "ja_furyou" U+4E0D U+826F, "ja_omo" U+91CD.

\* str.strip() on the texts the inputs are drawn from.
Strip(s) == IF s = " Dirt " THEN "Dirt" ELSE s

\* str.lower() on the texts the inputs are drawn from.
Lower(s) ==
    CASE s = "TURF" -> "turf"
      [] s = "Dirt" -> "dirt"
      [] s = " Dirt " -> " dirt "
      [] s = "Right" -> "right"
      [] s = "Tight" -> "tight"
      [] s = "Large" -> "large"
      [] s = "Heavy" -> "heavy"
      [] OTHER -> s

\* `a or b` on texts.
OrText(a, b) == IF a # NoText THEN a ELSE b

\* lo if x < lo else hi if x > hi else x
_clamp(x, lo, hi) == IF Lt(x, lo) THEN lo ELSE IF Gt(x, hi) THEN hi ELSE x

\* float(d.get(key, default)), the default again for NaN and for a value
\* float() rejects.
_get(d, key, default) ==
    LET v == d[key]
    IN  IF v = Missing \/ v = None \/ IsNaN(v) THEN default ELSE v

\* A track profile is the record of its surface, turn, corner and going
\* texts; the profile None and the empty profile are the record of four
\* absent texts.
Track(surface, turn, corner, going) ==
    [surface |-> surface, turn |-> turn, corner |-> corner, going |-> going]

NoTrack == Track(NoText, NoText, NoText, NoText)

\* `not track_profile`
TrackFalsy(tp) == tp = NoTrack

_infer_surface_from_track(tp) ==
    IF TrackFalsy(tp) THEN NoText
    ELSE LET s == Lower(Strip(tp.surface))
         IN  IF s \in {"turf", "grass", "ja_shiba"} THEN "turf"
             ELSE IF s \in {"dirt", "sand", "ja_daato", "ja_suna"} THEN "dirt"
             ELSE NoText

_infer_turn_from_track(tp) ==
    IF TrackFalsy(tp) THEN NoText
    ELSE LET t == Lower(Strip(tp.turn))
         IN  IF t \in {"left", "ja_migimawari", "right"}
             THEN (IF t = "left" THEN "left"
                   ELSE IF t = "right" THEN "right" ELSE NoText)
             ELSE IF t \in {"right"} THEN "right"
             ELSE IF t \in {"left"} THEN "left"
             ELSE IF t \in {"ja_migi", "ja_migimawari"} THEN "right"
             ELSE IF t \in {"ja_hidari", "ja_hidarimawari"} THEN "left"
             ELSE NoText

\* float(race.get("distance_m") or 0.0)
DistanceOf(v) == IF v = Missing \/ v = None \/ v = Fl(0) THEN Fl(0) ELSE v

\* The try block of lines 85-92: the three reads in order, the first value
\* float() rejects leaving the remaining sub-scores at 50.
PedScores(ps) ==
    LET raised1 == ps.speed = None
        raised2 == raised1 \/ ps.stamina = None
        raised3 == raised2 \/ ps.durability = None
    IN  [ped_speed |-> IF raised1 \/ ps.speed = Missing
                       THEN Fl(50) ELSE ps.speed,
         ped_stamina |-> IF raised2 \/ ps.stamina = Missing
                         THEN Fl(50) ELSE ps.stamina,
         ped_durable |-> IF raised3 \/ ps.durability = Missing
                         THEN Fl(50) ELSE ps.durability]

\* Distance preference proxy (lines 95-102).
DistPref(dist_m, ped_speed, ped_stamina, speed) ==
    IF Le(dist_m, Fl(0)) THEN Fl(50)
    ELSE IF Le(dist_m, Fl(1400))
    THEN Add(Mul(R(65, 100), ped_speed), Mul(R(35, 100), speed))
    ELSE IF Le(dist_m, Fl(1800))
    THEN Add(Mul(R(45, 100), ped_speed), Mul(R(55, 100), ped_stamina))
    ELSE Add(Mul(R(25, 100), ped_speed), Mul(R(75, 100), ped_stamina))

\* Surface suitability proxy (lines 105-110).
SurfPref(surface, ped_speed, ped_durable, stability, symmetry, fatigue) ==
    IF surface = "turf"
    THEN Add(Add(Mul(R(45, 100), ped_speed), Mul(R(25, 100), stability)),
             Mul(R(30, 100), symmetry))
    ELSE IF surface = "dirt"
    THEN Add(Add(Add(Mul(R(35, 100), ped_durable), Mul(R(25, 100), fatigue)),
                 Mul(R(20, 100), stability)),
             Mul(R(20, 100), symmetry))
    ELSE Add(Mul(R(50, 100), ped_durable), Mul(R(50, 100), stability))

\* Corner demands (lines 113-122).
CornerAdj(corner, stability, symmetry, stride) ==
    IF corner \in {"tight", "small", "ja_komawari"}
    THEN Add(Add(Add(Fl(0), Mul(R(18, 100), Sub(stability, Fl(50)))),
                 Mul(R(10, 100), Sub(symmetry, Fl(50)))),
             Mul(R(6, 100), _clamp(Sub(Fl(70), stride), Fl(-50), Fl(50))))
    ELSE IF corner \in {"wide", "large", "ja_oomawari"}
    THEN Add(Add(Fl(0), Mul(R(12, 100), Sub(stride, Fl(50)))),
             Mul(R(6, 100), Sub(stability, Fl(50))))
    ELSE Fl(0)

\* A going adjustment charged whatever the going is.
GoingAdjAny(going, fatigue, ped_durable, symmetry) ==
    Add(Add(Add(Fl(0), Mul(R(14, 100), Sub(fatigue, Fl(50)))),
            Mul(R(10, 100), Sub(ped_durable, Fl(50)))),
        Mul(R(6, 100), Sub(symmetry, Fl(50))))

\* Going / footing (lines 125-130).
GoingAdj(going, fatigue, ped_durable, symmetry) ==
    IF going \in {"heavy", "soft", "mud", "sloppy", "ja_furyou", "ja_omo"}
    THEN Add(Add(Add(Fl(0), Mul(R(14, 100), Sub(fatigue, Fl(50)))),
                 Mul(R(10, 100), Sub(ped_durable, Fl(50)))),
             Mul(R(6, 100), Sub(symmetry, Fl(50))))
    ELSE Fl(0)

\* A turn penalty charged above the threshold instead of below it.
TurnAdjAbove(turn, symmetry) ==
    IF turn \in {"left", "right"} /\ Gt(symmetry, Fl(45))
    THEN Sub(Fl(0), Mul(Sub(symmetry, Fl(45)), Fl(2)))
    ELSE Fl(0)

\* Turn direction (lines 134-136).
TurnAdj(turn, symmetry) ==
    IF turn \in {"left", "right"} /\ Lt(symmetry, Fl(45))
    THEN Sub(Fl(0), Mul(Sub(Fl(45), symmetry), R(12, 100)))
    ELSE Fl(0)

\* base = 0.42 * dist_pref + 0.38 * surf_pref + 0.10 * stability
\*        + 0.10 * symmetry
Base(dist_pref, surf_pref, stability, symmetry) ==
    Add(Add(Add(Mul(R(42, 100), dist_pref), Mul(R(38, 100), surf_pref)),
            Mul(R(10, 100), stability)),
        Mul(R(10, 100), symmetry))

\* round(x, 2). A value halfway between two hundredths goes up or down with
\* the binary float that stands for it, so the direction is an input.
Round2(x, up) ==
    IF IsNaN(x) THEN NaN
    ELSE LET k == (x.n * 100) \div x.d
             rem == (x.n * 100) % x.d
         IN  IF 2 * rem < x.d THEN R(k, 100)
             ELSE IF 2 * rem > x.d THEN R(k + 1, 100)
             ELSE IF up THEN R(k + 1, 100) ELSE R(k, 100)

\* The locals of compute_match_M at its return statement (lines 67-139).
MatchLocals(a) ==
    LET tp == a.track_profile
        surface == Lower(OrText(OrText(a.race.surface,
                                       _infer_surface_from_track(tp)),
                                "unknown"))
        dist_m == DistanceOf(a.race.distance_m)
        turn == Lower(OrText(OrText(a.race.turn, _infer_turn_from_track(tp)),
                             "unknown"))
        corner == Lower(OrText(tp.corner, "unknown"))
        going == Lower(OrText(tp.going, "unknown"))
        stride == _get(a.gait_item_scores, "S", Fl(50))
        pitch == _get(a.gait_item_scores, "P", Fl(50))
        stability == _get(a.gait_item_scores, "W", Fl(50))
        symmetry == _get(a.gait_item_scores, "A", Fl(50))
        fatigue == _get(a.gait_item_scores, "F", Fl(50))
        speed == _get(a.gait_item_scores, "V", Fl(50))
        ped == PedScores(a.pedigree)
        dist_pref == DistPref(dist_m, ped.ped_speed, ped.ped_stamina, speed)
        surf_pref == SurfPref(surface, ped.ped_speed, ped.ped_durable,
                              stability, symmetry, fatigue)
        corner_adj == CornerAdj(corner, stability, symmetry, stride)
        going_adj == GoingAdj(going, fatigue, ped.ped_durable, symmetry)
        turn_adj == TurnAdj(turn, symmetry)
        base == Base(dist_pref, surf_pref, stability, symmetry)
    IN  [surface |-> surface, dist_m |-> dist_m, turn |-> turn,
         corner |-> corner, going |-> going,
         stride |-> stride, pitch |-> pitch, stability |-> stability,
         symmetry |-> symmetry, fatigue |-> fatigue, speed |-> speed,
         ped_speed |-> ped.ped_speed, ped_stamina |-> ped.ped_stamina,
         ped_durable |-> ped.ped_durable,
         dist_pref |-> dist_pref, surf_pref |-> surf_pref,
         corner_adj |-> corner_adj, going_adj |-> going_adj,
         turn_adj |-> turn_adj, base |-> base,
         match |-> _clamp(Add(Add(Add(base, corner_adj), going_adj),
                              turn_adj), Fl(0), Fl(100))]

\* The returned dictionary (lines 141-155); up and upc are the directions of
\* the halfway cases of match_0_100 and of the components.
compute_match_M(l, up, upc) ==
    [match_0_100 |-> Round2(l.match, up),
     components |->
        [dist_pref |-> Round2(_clamp(l.dist_pref, Fl(0), Fl(100)), upc),
         surf_pref |-> Round2(_clamp(l.surf_pref, Fl(0), Fl(100)), upc),
         corner_adj |-> Round2(l.corner_adj, upc),
         going_adj |-> Round2(l.going_adj, upc),
         turn_adj |-> Round2(l.turn_adj, upc),
         surface |-> l.surface, distance_m |-> l.dist_m, turn |-> l.turn,
         corner |-> l.corner, going |-> l.going]]

\* Inputs of compute_match_M.
Items(S, P, W, A, F, V) ==
    [S |-> S, P |-> P, W |-> W, A |-> A, F |-> F, V |-> V]

\* Sub-score dictionaries: neutral, as score_v2 produces them (no "F" key),
\* weak, outside 0..100, and with NaN, None and absent entries.
GaitItemScores ==
    { Items(Fl(50), Fl(50), Fl(50), Fl(50), Fl(50), Fl(50)),
      Items(Fl(80), Fl(60), Fl(70), Fl(30), Missing, Fl(55)),
      Items(Fl(20), Fl(45), Fl(10), R(4499, 100), Fl(15), Fl(0)),
      Items(Fl(150), Fl(-20), Fl(130), Fl(-40), Fl(200), Fl(120)),
      Items(NaN, None, NaN, Missing, NaN, None) }

\* pedigree["scores"]; a missing pedigree or one without a "scores"
\* dictionary reads as the dictionary with no key.
PedSub(speed, stamina, durability) ==
    [speed |-> speed, stamina |-> stamina, durability |-> durability]

NoPedigree == PedSub(Missing, Missing, Missing)

Pedigrees ==
    { NoPedigree,
      PedSub(Fl(60), Fl(40), Fl(70)),
      PedSub(Fl(0), Fl(0), Fl(0)),
      PedSub(Fl(100), Fl(100), Fl(100)),
      PedSub(Fl(300), Fl(-150), Fl(250)),
      PedSub(Fl(-200), Fl(400), Fl(-100)),
      PedSub(Fl(80), None, Fl(90)),
      PedSub(NaN, Fl(50), Fl(50)),
      PedSub(Fl(50), Fl(50), NaN) }

\* Race conditions; the race None reads as the dictionary with no key.
Race(surface, distance_m, turn) ==
    [surface |-> surface, distance_m |-> distance_m, turn |-> turn]

Races ==
    { Race(s, d, t) :
        s \in {NoText, "turf", "dirt", "TURF"},
        d \in {Missing, Fl(-100), Fl(1200), Fl(1400), Fl(1600), Fl(1800),
               Fl(2400)},
        t \in {NoText, "left", "Right"} }

Tracks ==
    { NoTrack,
      Track("grass", "ja_hidari", "tight", "Heavy"),
      Track(" Dirt ", "right", "wide", "good"),
      Track("ja_shiba", "ja_migimawari", "ja_komawari", "ja_omo"),
      Track("sand", "ja_migi", "Large", "firm"),
      Track(NoText, "left", "small", "soft"),
      Track("turf", "both", "medium", "yielding") }

MatchArgs(items, ped, race, tp) ==
    [gait_item_scores |-> items, pedigree |-> ped, race |-> race,
     track_profile |-> tp]

MatchArgSpace ==
    { MatchArgs(i, p, r, t) :
        i \in GaitItemScores, p \in Pedigrees, r \in Races, t \in Tracks }

ExampleMatchArgs ==
    MatchArgs(Items(Fl(50), Fl(50), Fl(50), Fl(50), Fl(50), Fl(50)),
              NoPedigree, Race("turf", Fl(1600), "left"), NoTrack)

NoMatchLoc == [entered |-> FALSE]

MatchIdle ==
    /\ matchArgs = ExampleMatchArgs
    /\ matchLoc = NoMatchLoc
    /\ matchRes = NoRes
    /\ matchPrev = NoCall

\* One call of compute_match_M, from entry to return.
MatchCall(up, upc) ==
    /\ matchRes = NoRes
    /\ LET l == MatchLocals(matchArgs)
       IN  /\ matchLoc' = l
           /\ matchRes' = compute_match_M(l, up, upc)
    /\ UNCHANGED <<matchArgs, matchPrev>>
    /\ UNCHANGED <<scoreVars, simVars, gaitVars, evalVars, clientVars>>

\* Stability and symmetry sub-scores of the second call of a pair.
PairScores == {Fl(0), Fl(30), Fl(44), Fl(45), Fl(46), Fl(70), Fl(100)}

\* The caller calls again with one gait sub-score (W or A) changed.
MatchAgain(key, v) ==
    /\ matchRes # NoRes
    /\ matchPrev = NoCall
    /\ matchArgs.gait_item_scores[key] # v
    /\ matchPrev' = [args |-> matchArgs, res |-> matchRes]
    /\ LET a == [matchArgs EXCEPT !.gait_item_scores[key] = v]
           l == MatchLocals(a)
       IN  /\ matchArgs' = a
           /\ matchLoc' = l
           /\ \E up \in BOOLEAN, upc \in BOOLEAN :
                 matchRes' = compute_match_M(l, up, upc)
    /\ UNCHANGED <<scoreVars, simVars, gaitVars, evalVars, clientVars>>

\* Inputs of the pairs of calls: every surface, distance band and turn, tight
\* and wide corners, adverse and plain going.
PairGaitItemScores ==
    { Items(Fl(50), Fl(50), Fl(50), Fl(50), Fl(50), Fl(50)),
      Items(Fl(80), Fl(60), Fl(70), Fl(30), Missing, Fl(55)),
      Items(Fl(20), Fl(45), Fl(10), Fl(44), Fl(15), Fl(0)) }

PairPedigrees ==
    { NoPedigree,
      PedSub(Fl(60), Fl(40), Fl(70)),
      PedSub(Fl(300), Fl(-150), Fl(250)) }

PairRaces ==
    { Race(s, d, t) :
        s \in {NoText, "turf", "dirt"},
        d \in {Missing, Fl(1200), Fl(1600), Fl(2400)},
        t \in {NoText, "left"} }

PairTracks ==
    { Track(NoText, NoText, "tight", "Heavy"),
      Track("grass", "ja_hidari", "ja_komawari", "good"),
      Track(NoText, "right", "small", NoText),
      Track(" Dirt ", "right", "wide", "soft") }

MatchPairArgSpace ==
    { MatchArgs(i, p, r, t) :
        i \in PairGaitItemScores, p \in PairPedigrees, r \in PairRaces,
        t \in PairTracks }

\* Race conditions that also carry the keys "corner" and "going".
RaceFull(surface, distance_m, turn, corner, going) ==
    [surface |-> surface, distance_m |-> distance_m, turn |-> turn,
     corner |-> corner, going |-> going]

\* Inputs of the calls that resolve the race conditions: each of the four
\* fields given or not in the race conditions, against track profiles that
\* agree with it, conflict with it or say nothing.
FullRaces ==
    { RaceFull(s, Fl(1600), t, c, g) :
        s \in {NoText, "turf", "TURF"}, t \in {NoText, "left"},
        c \in {NoText, "tight", "Large"}, g \in {NoText, "heavy", "good"} }

FullTracks ==
    { NoTrack,
      Track("grass", "ja_hidari", "tight", "Heavy"),
      Track(" Dirt ", "right", "wide", "good"),
      Track("mixed", "both", NoText, NoText) }

MatchFullArgSpace ==
    { MatchArgs(i, NoPedigree, r, t) :
        i \in { Items(Fl(50), Fl(50), Fl(50), Fl(50), Fl(50), Fl(50)),
                Items(Fl(80), Fl(60), Fl(70), Fl(30), Missing, Fl(55)) },
        r \in FullRaces, t \in FullTracks }

----------------------------------------------------------------------------
(* services/gait_features_v2.py: extract_gait_features *)

Min(a, b) == IF a < b THEN a ELSE b

\* One period of 100*sin(2*pi*i/P), i = 0..P-1, rounded to whole units.
SineTable(P) ==
    CASE P = 3 -> <<0, 87, -87>>
      [] P = 4 -> <<0, 100, 0, -100>>
      [] P = 6 -> <<0, 87, 87, 0, -87, -87>>
      [] P = 8 -> <<0, 71, 100, 71, 0, -71, -100, -71>>
      [] P = 10 -> <<0, 59, 95, 95, 59, 0, -59, -95, -95, -59>>

\* What is behind video_path: whether it opens, how many frames it yields,
\* the frame rate it reports (0 when it reports none) and the mean
\* optical-flow magnitude of each pair of consecutive frames (line 87), in
\* hundredths of a pixel: constant, or a sinusoid of period P frames.
Source(opened, frames, fps, flow) ==
    [opened |-> opened, frames |-> frames, fps |-> fps, flow |-> flow]

ConstFlow == [kind |-> "const", period |-> 0]
SineFlow(P) == [kind |-> "sine", period |-> P]

\* float(np.mean(mag)) of the i-th frame pair
FlowMag(src, i) ==
    IF src.flow.kind = "const" THEN 120
    ELSE 120 + SineTable(src.flow.period)[((i - 1) % src.flow.period) + 1]

\* flow_mags after the loop of lines 81-121 over n frames
FlowMags(src, n) == [i \in 1..(n - 1) |-> FlowMag(src, i)]

\* f[lo] + ... + f[hi]
RECURSIVE SumRange(_, _, _)
SumRange(f, lo, hi) ==
    IF lo > hi THEN 0
    ELSE IF lo = hi THEN f[lo]
    ELSE LET mid == (lo + hi) \div 2
         IN  SumRange(f, lo, mid) + SumRange(f, mid + 1, hi)

SumUpTo(f, k) == SumRange(f, 1, k)

\* mags - np.mean(mags), every entry multiplied by len(mags)
Centered(mags) ==
    LET n == Len(mags)
        total == SumUpTo(mags, n)
    IN  [i \in 1..n |-> n * mags[i] - total]

\* np.allclose(mags, 0)
AllClose0(c) == \A i \in 1..Len(c) : c[i] = 0

\* ac = np.correlate(mags, mags, "full")[len(mags)-1:]; ac[0] = 0
\* (indexed by the lag 0..len-1)
AutoCorr(c) ==
    [k \in 0..(Len(c) - 1) |->
        IF k = 0 THEN 0
        ELSE SumUpTo([i \in 1..(Len(c) - k) |-> c[i] * c[i + k]], Len(c) - k)]

\* peak = int(np.argmax(ac[:max(5, len(ac)//2)])), n = len(ac): the first
\* lag that holds the largest value of the window
Peak(ac, n) ==
    LET w == Min(n, Max(5, n \div 2))
    IN  CHOOSE k \in 0..(w - 1) :
            /\ \A j \in 0..(w - 1) : ac[j] <= ac[k]
            /\ \A j \in 0..(k - 1) : ac[j] < ac[k]

\* fps = cap.get(cv2.CAP_PROP_FPS) or 30.0
FpsOf(src) == IF src.fps = 0 THEN 30 ELSE src.fps

\* The cadence step (lines 128-137): the peak lag (0 when the series is
\* flat) and pitch_hz.
Cadence(mags, fps) ==
    LET c == Centered(mags)
    IN  IF AllClose0(c) THEN [peak |-> 0, pitch_hz |-> Fl(2)]
        ELSE LET peak == Peak(AutoCorr(c), Len(c))
             IN  [peak |-> peak, pitch_hz |-> R(fps, Max(2, peak))]

\* 0.0 if x < 0.0 else 1.0 if x > 1.0 else x
_clip01(x) == IF Lt(x, Fl(0)) THEN Fl(0) ELSE IF Gt(x, Fl(1)) THEN Fl(1) ELSE x

\* estimate_quality (lines 26-40) of a frame whose Laplacian variance is fm
\* and whose mean grey level is mean: the score and the issues.
estimate_quality(fm, mean) ==
    LET i1 == IF fm < 80 THEN <<"blur">> ELSE <<>>
        i2 == IF mean < 60 THEN Append(i1, "dark") ELSE i1
        i3 == IF mean > 210 THEN Append(i2, "overexposed") ELSE i2
        blur_score == _clip01(R(fm - 40, 200))
        bright_score == Sub(Fl(1), _clip01(R(Abs(mean - 130), 130)))
    IN  [score |-> Mul(Fl(100), Add(Mul(R(6, 10), blur_score),
                                   Mul(R(4, 10), bright_score))),
         issues |-> i3]

\* wobble = _clip01(drift_std / 6.0), drift_std given in tenths of a pixel
WobbleOf(drift_std10) == _clip01(R(drift_std10, 60))

\* if wobble > 0.55
Shake(wobble) == Gt(wobble, R(55, 100))

\* quality_score = float(max(0.0, min(100.0, q0 - 30.0*wobble)))
QualityScore(q0, wobble) ==
    LET v == Sub(q0, Mul(Fl(30), wobble))
        lo == IF Lt(Fl(100), v) THEN Fl(100) ELSE v
    IN  IF Lt(Fl(0), lo) THEN lo ELSE Fl(0)

\* What the frames show: the Laplacian variance and the mean grey level of
\* the first frame, and the standard deviation of the camera drift over the
\* clip in tenths of a pixel.
Scene(fm, mean, drift_std10) ==
    [fm |-> fm, mean |-> mean, drift_std10 |-> drift_std10]

Scenes ==
    { Scene(fm, mean, d) :
        fm \in {0, 79, 140, 240}, mean \in {59, 130, 211},
        d \in {0, 18, 33, 36, 90} }

Raised(msg) == [raised |-> "RuntimeError", msg |-> msg]

\* A threshold of 9 frames.
TooFewBelow9(n) == n < 9

\* if len(frames) < 10
TooFew(n) == n < 10

GaitSources ==
    { Source(FALSE, 0, 30, ConstFlow), Source(FALSE, 40, 30, SineFlow(4)) }
    \cup { Source(TRUE, n, 30, ConstFlow) : n \in {0, 5, 9, 10, 11, 300} }
    \cup { Source(TRUE, n, f, SineFlow(P)) :
             n \in {9, 10, 18, 25}, f \in {0, 25, 30}, P \in {3, 4, 6, 8, 10} }

MaxFramesArgs == {12, 240}

NoGaitLoc ==
    [frames |-> 0, peak |-> 0, q0 |-> None, issues0 |-> <<>>, wobble |-> None]

NoSource == Source(FALSE, 0, 0, ConstFlow)

GaitIdle ==
    /\ gfPc = "idle"
    /\ gfArgs = [src |-> NoSource, max_frames |-> 240]
    /\ gfLoc = NoGaitLoc
    /\ gfRes = NoRes

\* Lines 43-48: open the source; an unopenable one raises.
GfOpen(src, max_frames) ==
    /\ gfPc = "idle"
    /\ gfArgs' = [src |-> src, max_frames |-> max_frames]
    /\ gfLoc' = NoGaitLoc
    /\ IF ~src.opened
       THEN /\ gfPc' = "done"
            /\ gfRes' = Raised("Failed to open video")
       ELSE /\ gfPc' = "read"
            /\ gfRes' = NoRes
    /\ UNCHANGED <<scoreVars, simVars, matchVars, evalVars, clientVars>>

\* One iteration of the read loop (lines 49-53) that gets a frame.
GfRead ==
    /\ gfPc = "read"
    /\ gfLoc.frames < gfArgs.max_frames
    /\ gfLoc.frames < gfArgs.src.frames
    /\ gfLoc' = [gfLoc EXCEPT !.frames = @ + 1]
    /\ UNCHANGED <<gfPc, gfArgs, gfRes>>
    /\ UNCHANGED <<scoreVars, simVars, matchVars, evalVars, clientVars>>

\* The loop ends (max_frames reached or a read fails); lines 54-175.
GfFinish(scene) ==
    /\ gfPc = "read"
    /\ \/ gfLoc.frames >= gfArgs.max_frames
       \/ gfLoc.frames >= gfArgs.src.frames
    /\ gfPc' = "done"
    /\ IF TooFew(gfLoc.frames)
       THEN /\ gfRes' = Raised("Too few frames")
            /\ gfLoc' = gfLoc
       ELSE LET cad == Cadence(FlowMags(gfArgs.src, gfLoc.frames),
                               FpsOf(gfArgs.src))
                q == estimate_quality(scene.fm, scene.mean)
                wobble == WobbleOf(scene.drift_std10)
            IN  /\ gfLoc' = [gfLoc EXCEPT !.peak = cad.peak, !.q0 = q.score,
                                          !.issues0 = q.issues,
                                          !.wobble = wobble]
                /\ gfRes' =
                      [GaitFeatures |-> TRUE, pitch_hz |-> cad.pitch_hz,
                       wobble_ratio_0_1 |-> wobble,
                       quality_score_0_100 |-> QualityScore(q.score, wobble),
                       quality_issues |->
                          IF Shake(wobble) THEN Append(q.issues, "shake")
                          ELSE q.issues]
    /\ UNCHANGED gfArgs
    /\ UNCHANGED <<scoreVars, simVars, matchVars, evalVars, clientVars>>

\* Frame heights and widths of the first frame, in pixels.
MaxFrameH == 24
FrameHeights == 1..MaxFrameH
FrameWidths == {1, 2, 7, 16}

\* The three parts roi_rect is asked for.
Parts == {"head", "trunk", "hind"}

\* h, w = frames[0].shape[:2]
\* x0, y0, x1, y1 = int(w*0.25), int(h*0.15), int(w*0.75), int(h*0.90)
\* (int() of the float product is the floor of the exact product for every
\* frame size up to 5000 pixels.)
Band(h, w) ==
    [h |-> h, w |-> w,
     x0 |-> (w * 25) \div 100, y0 |-> (h * 15) \div 100,
     x1 |-> (w * 75) \div 100, y1 |-> (h * 90) \div 100,
     rects |-> <<>>]

\* Thirds cut at multiples of bh//3.
roi_rectWholeThirds(b, part) ==
    LET bh == b.y1 - b.y0
    IN  IF part = "head" THEN <<b.x0, b.y0, b.x1, b.y0 + bh \div 3>>
        ELSE IF part = "trunk"
             THEN <<b.x0, b.y0 + bh \div 3, b.x1, b.y0 + 2 * (bh \div 3)>>
             ELSE <<b.x0, b.y0 + 2 * (bh \div 3), b.x1, b.y1>>

\* roi_rect(part) with the enclosing x0, y0, x1, y1 in b: the rectangle
\* (left, top, right, bottom), right and bottom exclusive.
roi_rect(b, part) ==
    LET bh == b.y1 - b.y0
    IN  IF part = "head" THEN <<b.x0, b.y0, b.x1, b.y0 + bh \div 3>>
        ELSE IF part = "trunk"
             THEN <<b.x0, b.y0 + bh \div 3, b.x1, b.y0 + (2 * bh) \div 3>>
             ELSE <<b.x0, b.y0 + (2 * bh) \div 3, b.x1, b.y1>>

\* A call roi_rect(part) made while the frames are processed; the
\* rectangles obtained so far are kept by part.
RoiRect(part) ==
    /\ gfPc = "frames"
    /\ part \notin DOMAIN gfLoc.rects
    /\ gfLoc' = [gfLoc EXCEPT !.rects = (part :> roi_rect(gfLoc, part)) @@ @]
    /\ UNCHANGED <<gfPc, gfArgs, gfRes>>
    /\ UNCHANGED <<scoreVars, simVars, matchVars, evalVars, clientVars>>

----------------------------------------------------------------------------
(* services/evaluator.py: evaluate_horse *)

\* video_path: falsy (None or ""), or the path of a video source
NoVideo == [given |-> FALSE, src |-> NoSource]
Video(src) == [given |-> TRUE, src |-> src]

\* An exception leaving evaluate_horse, and the line that raised it.
Raises(type, line) == [raised |-> type, line |-> line]

\* A function's parameters, and those without a default.
Signature(params, required) == [params |-> params, required |-> required]

\* Python binds a call made with keywords kws iff every keyword names a
\* parameter and every parameter without a default is given.
Binds(sig, kws) == kws \subseteq sig.params /\ sig.required \subseteq kws

\* race_match_v2.py lines 49-54
compute_match_M_sig ==
    Signature({"gait_item_scores", "pedigree", "race", "track_profile"},
              {"gait_item_scores", "pedigree", "race"})

\* race_prob_model.py lines 51-57
estimate_race_probs_sig ==
    Signature({"our_mu", "entrants", "n", "sigma"}, {"our_mu", "entrants"})

\* The keywords of the calls at lines 186-200 and 221-224.
MatchCallKeywords == {"gait_item_scores", "ped", "track_profile"}
ProbsCallKeywords == {"total_score", "opponents"}

\* The sections of the dictionary returned at lines 226-259.
ResultSections ==
    {"ok", "version", "horse", "inputs", "cv_metrics", "pedigree", "match",
     "scores", "race", "race_probs", "notes"}

\* The dictionaries of lines 124-130 and 135-141, and the GaitFeatures
\* object extract_gait_features returns.
GaitNoVideo == [kind |-> "dict", issue |-> "no_video", error |-> NoText]
GaitCvError(msg) == [kind |-> "dict", issue |-> "cv_error", error |-> msg]
GaitObject == [kind |-> "GaitFeatures", issue |-> NoText, error |-> NoText]

NoEvLoc ==
    [gait |-> GaitNoVideo, q |-> None, pitch_hz |-> None,
     stride_index |-> None, wobble |-> None, asym |-> None,
     speed_proxy_f |-> None, ped |-> None, opponents |-> 0]

\* What analyze_pedigree_strict returns: ped_score, ped_stamina,
\* ped_surfacefit, each within 0..100.
EvalPedigrees == { Ped(Fl(s), Fl(t), Fl(50)) : s \in {40, 55}, t \in {50, 70} }

\* Opponents named in opponent_text.
EvalOpponents == {0, 2}

EvalVideos == {NoVideo} \cup { Video(src) : src \in GaitSources }

EvalIdle ==
    /\ evPc = "idle"
    /\ evArgs = [video_path |-> NoVideo]
    /\ evLoc = NoEvLoc
    /\ evRes = NoRes

\* Lines 119-131: the default gait dictionary; a truthy video_path goes on
\* to extract_gait_features.
EvStart ==
    /\ evPc = "idle"
    /\ evLoc' = [evLoc EXCEPT !.gait = GaitNoVideo]
    /\ evPc' = IF evArgs.video_path.given THEN "extract" ELSE "signals"
    /\ UNCHANGED <<evArgs, evRes>>
    /\ UNCHANGED <<scoreVars, simVars, matchVars, gaitVars, clientVars>>

\* Line 133: extract_gait_features(video_path), max_frames at its default.
EvExtractOpen ==
    /\ evPc = "extract"
    /\ GfOpen(evArgs.video_path.src, 240)

EvExtractRead ==
    /\ evPc = "extract"
    /\ GfRead

EvExtractFinish ==
    /\ evPc = "extract"
    /\ \E scene \in Scenes : GfFinish(scene)

\* Lines 133-141: the call returns its GaitFeatures, or its exception is
\* caught and gait becomes the cv_error dictionary.
EvExtractDone ==
    /\ evPc = "extract"
    /\ gfPc = "done"
    /\ evLoc' = [evLoc EXCEPT !.gait =
                    IF "raised" \in DOMAIN gfRes THEN GaitCvError(gfRes.msg)
                    ELSE GaitObject]
    /\ evPc' = "signals"
    /\ UNCHANGED <<evArgs, evRes>>
    /\ UNCHANGED <<scoreVars, simVars, matchVars, gaitVars, clientVars>>

\* Lines 143-159: gait.get("quality"), gait.get("signals") and the signals
\* with their defaults.  A GaitFeatures object has no attribute get; the
\* two dictionaries have quality score 0 and carry none of the signals.
EvSignals ==
    /\ evPc = "signals"
    /\ IF evLoc.gait.kind # "dict"
       THEN /\ evPc' = "raised"
            /\ evRes' = Raises("AttributeError", 143)
            /\ evLoc' = evLoc
       ELSE /\ evPc' = "pedigree"
            /\ evRes' = evRes
            /\ evLoc' = [evLoc EXCEPT !.q = Fl(0), !.pitch_hz = Fl(2),
                                      !.stride_index = Pct(55),
                                      !.wobble = Pct(30), !.asym = Pct(10),
                                      !.speed_proxy_f = None]
    /\ UNCHANGED evArgs
    /\ UNCHANGED <<scoreVars, simVars, matchVars, gaitVars, clientVars>>

\* Lines 161-182: the pedigree analysis and the opponents.
EvPedigree(ped, opponents) ==
    /\ evPc = "pedigree"
    /\ evLoc' = [evLoc EXCEPT !.ped = ped, !.opponents = opponents]
    /\ evPc' = "match"
    /\ UNCHANGED <<evArgs, evRes>>
    /\ UNCHANGED <<scoreVars, simVars, matchVars, gaitVars, clientVars>>

\* What compute_match_M returns: a dictionary (race_match_v2.py line 49).
MatchDict == [kind |-> "dict"]

\* Lines 202-259 once compute_match_M has returned M: score_v2 compares
\* race_match_override = M with 0.0 in clamp (scoring_v2.py line 119), which
\* raises for anything but a number, and estimate_race_probs is called with
\* the keywords of lines 221-224.
EvAfterMatch(M) ==
    IF M.kind # "number"
    THEN Raises("TypeError", 204)
    ELSE IF ~Binds(estimate_race_probs_sig, ProbsCallKeywords)
    THEN Raises("TypeError", 221)
    ELSE [s \in ResultSections |-> TRUE]

\* Lines 184-259: the match stage and everything after it.
EvMatch ==
    /\ evPc = "match"
    /\ evRes' = IF ~Binds(compute_match_M_sig, MatchCallKeywords)
                THEN Raises("TypeError", 186)
                ELSE EvAfterMatch(MatchDict)
    /\ evPc' = IF "raised" \in DOMAIN evRes' THEN "raised" ELSE "returned"
    /\ UNCHANGED <<evArgs, evLoc>>
    /\ UNCHANGED <<scoreVars, simVars, matchVars, gaitVars, clientVars>>

----------------------------------------------------------------------------
(* services/video_ai_client.py: analyze_video and its concurrency guard *)

\* Threads of the process that call analyze_video, and the calls each makes.
MaxThreads == 2
MaxClientCalls == 2
Threads == 1..MaxThreads

\* A value of the environment variable AI_MAX_CONCURRENCY: unset, the empty
\* string, the decimal text of an integer, or other text.
EnvUnset == [kind |-> "unset", val |-> 0]
EnvEmpty == [kind |-> "empty", val |-> 0]
EnvInt(k) == [kind |-> "int", val |-> k]
EnvText == [kind |-> "text", val |-> 0]

\* max(1, int(os.getenv("AI_MAX_CONCURRENCY", "1") or "1")), 1 when int()
\* raises.
_max_concurrency(e) ==
    IF e.kind = "int" THEN Max(1, e.val) ELSE 1

\* base (VIDEO_AI_URL set or not), AI_ASYNC_MODE and AI_MAX_CONCURRENCY.
ClientEnvs ==
    [base : BOOLEAN, async : BOOLEAN,
     max_concurrency : {EnvUnset, EnvEmpty, EnvText,
                        EnvInt(0), EnvInt(1), EnvInt(2)}]

\* The locals of a call: video_public_url given or not, the semaphore
\* object _SEM.acquire() was evaluated on (0 before that), how the call
\* leaves, and the acquires and releases the thread has completed and the
\* calls it has made.
NoClientLoc ==
    [public_url |-> FALSE, sem |-> 0, exit |-> "none",
     acquires |-> 0, releases |-> 0, calls |-> 0]

ClientIdle ==
    /\ vcEnv = [base |-> FALSE, async |-> FALSE, max_concurrency |-> EnvUnset]
    /\ vcSem = 0
    /\ vcPermits = <<>>
    /\ vcPc = [t \in Threads |-> "idle"]
    /\ vcLoc = [t \in Threads |-> NoClientLoc]

\* Lines 192-217: without a base URL the call is served locally and returns
\* without touching the guard; with one it enters _acquire().
AnalyzeVideo(t, public_url) ==
    /\ vcPc[t] = "idle"
    /\ vcLoc[t].calls < MaxClientCalls
    /\ vcLoc' = [vcLoc EXCEPT ![t].public_url = public_url,
                              ![t].sem = 0,
                              ![t].calls = @ + 1,
                              ![t].exit = IF vcEnv.base THEN "none"
                                          ELSE "local"]
    /\ vcPc' = [vcPc EXCEPT ![t] = IF vcEnv.base THEN "test" ELSE "done"]
    /\ UNCHANGED <<vcEnv, vcSem, vcPermits>>
    /\ UNCHANGED <<scoreVars, simVars, matchVars, gaitVars, evalVars>>

\* Line 77: if _SEM is None
AcquireTest(t) ==
    /\ vcPc[t] = "test"
    /\ vcPc' = [vcPc EXCEPT ![t] = IF vcSem = 0 THEN "create" ELSE "load"]
    /\ UNCHANGED <<vcEnv, vcSem, vcPermits, vcLoc>>
    /\ UNCHANGED <<scoreVars, simVars, matchVars, gaitVars, evalVars>>

\* Lines 78-79: _SEM = threading.Semaphore(_max_concurrency())
AcquireCreate(t) ==
    /\ vcPc[t] = "create"
    /\ vcPermits' = Append(vcPermits, _max_concurrency(vcEnv.max_concurrency))
    /\ vcSem' = Len(vcPermits) + 1
    /\ vcPc' = [vcPc EXCEPT ![t] = "load"]
    /\ UNCHANGED <<vcEnv, vcLoc>>
    /\ UNCHANGED <<scoreVars, simVars, matchVars, gaitVars, evalVars>>

\* Line 80: the global _SEM is read ...
AcquireLoad(t) ==
    /\ vcPc[t] = "load"
    /\ vcLoc' = [vcLoc EXCEPT ![t].sem = vcSem]
    /\ vcPc' = [vcPc EXCEPT ![t] = "acquire"]
    /\ UNCHANGED <<vcEnv, vcSem, vcPermits>>
    /\ UNCHANGED <<scoreVars, simVars, matchVars, gaitVars, evalVars>>

\* ... and acquire() on that object blocks until its counter is positive.
AcquireTake(t) ==
    /\ vcPc[t] = "acquire"
    /\ vcPermits[vcLoc[t].sem] > 0
    /\ vcPermits' = [vcPermits EXCEPT ![vcLoc[t].sem] = @ - 1]
    /\ vcLoc' = [vcLoc EXCEPT ![t].acquires = @ + 1]
    /\ vcPc' = [vcPc EXCEPT ![t] = "try"]
    /\ UNCHANGED <<vcEnv, vcSem>>
    /\ UNCHANGED <<scoreVars, simVars, matchVars, gaitVars, evalVars>>

\* The ways the try block of lines 218-238 is left: the return statements
\* of lines 224, 227, 228, 232 and 238, and an exception (the helpers read
\* their retry and polling settings with int() and float() outside any try;
\* line 225 calls .get on whatever JSON value the service sent).
Exits(public_url, async) ==
    IF public_url /\ async
    THEN {"return_224", "return_227", "return_228", "raise"}
    ELSE IF public_url
         THEN {"return_232", "return_238", "raise"}
         ELSE {"return_238", "raise"}

AllExits == Exits(TRUE, TRUE) \cup Exits(TRUE, FALSE)

\* Lines 218-238: the remote call, up to the point the try block is left.
TryBody(t, exit) ==
    /\ vcPc[t] = "try"
    /\ exit \in Exits(vcLoc[t].public_url, vcEnv.async)
    /\ vcLoc' = [vcLoc EXCEPT ![t].exit = exit]
    /\ vcPc' = [vcPc EXCEPT ![t] = "finally"]
    /\ UNCHANGED <<vcEnv, vcSem, vcPermits>>
    /\ UNCHANGED <<scoreVars, simVars, matchVars, gaitVars, evalVars>>

\* Lines 239-240 and 82-88: finally: _release(), which releases the
\* semaphore object the global names at that moment.
Release(t) ==
    /\ vcPc[t] = "finally"
    /\ vcPermits' = IF vcSem # 0 THEN [vcPermits EXCEPT ![vcSem] = @ + 1]
                                 ELSE vcPermits
    /\ vcLoc' = [vcLoc EXCEPT ![t].releases = IF vcSem # 0 THEN @ + 1 ELSE @]
    /\ vcPc' = [vcPc EXCEPT ![t] = "done"]
    /\ UNCHANGED <<vcEnv, vcSem>>
    /\ UNCHANGED <<scoreVars, simVars, matchVars, gaitVars, evalVars>>

\* The caller has the outcome; the thread is free for its next call.
CallOver(t) ==
    /\ vcPc[t] = "done"
    /\ vcPc' = [vcPc EXCEPT ![t] = "idle"]
    /\ UNCHANGED <<vcEnv, vcSem, vcPermits, vcLoc>>
    /\ UNCHANGED <<scoreVars, simVars, matchVars, gaitVars, evalVars>>

----------------------------------------------------------------------------
(* score_v2 calls *)

\* The pending call returns.
Score ==
    /\ res = NoRes
    /\ res' = score_v2(args)
    /\ ncalls' = ncalls + 1
    /\ UNCHANGED <<args, prev>>
    /\ UNCHANGED <<simVars, matchVars, gaitVars, evalVars, clientVars>>

\* The caller calls again, changing only the quality argument.
ScoreAgain(q2) ==
    /\ res # NoRes
    /\ ncalls < MaxCalls
    /\ prev' = [args |-> args, res |-> res]
    /\ args' = [args EXCEPT !.q = q2]
    /\ res' = score_v2(args')
    /\ ncalls' = ncalls + 1
    /\ UNCHANGED <<simVars, matchVars, gaitVars, evalVars, clientVars>>

\* The caller calls again, changing only the argument key.
ScoreVary(key, v) ==
    /\ res # NoRes
    /\ prev = NoCall
    /\ args[key] # v
    /\ prev' = [args |-> args, res |-> res]
    /\ LET a == [args EXCEPT ![key] = v]
       IN  /\ args' = a
           /\ res' = score_v2(a)
    /\ ncalls' = ncalls + 1
    /\ UNCHANGED <<simVars, matchVars, gaitVars, evalVars, clientVars>>

\* The caller calls again with the same arguments.
ScoreRepeat ==
    /\ res # NoRes
    /\ prev = NoCall
    /\ prev' = [args |-> args, res |-> res]
    /\ res' = score_v2(args)
    /\ ncalls' = ncalls + 1
    /\ UNCHANGED args
    /\ UNCHANGED <<simVars, matchVars, gaitVars, evalVars, clientVars>>

Init ==
    /\ args \in ArgSpace
    /\ res = NoRes
    /\ prev = NoCall
    /\ ncalls = 0
    /\ SimIdle
    /\ MatchIdle
    /\ GaitIdle
    /\ EvalIdle
    /\ ClientIdle

WideInit ==
    /\ args \in WideArgSpace
    /\ res = NoRes
    /\ prev = NoCall
    /\ ncalls = 0
    /\ SimIdle
    /\ MatchIdle
    /\ GaitIdle
    /\ EvalIdle
    /\ ClientIdle

Next ==
    \/ Score
    \/ \E q2 \in Qualities : ScoreAgain(q2)

Spec == Init /\ [][Next]_vars

WideSpec == WideInit /\ [][Next]_vars

VaryInit ==
    /\ args \in VaryArgSpace
    /\ res = NoRes
    /\ prev = NoCall
    /\ ncalls = 0
    /\ SimIdle
    /\ MatchIdle
    /\ GaitIdle
    /\ EvalIdle
    /\ ClientIdle

VaryNext ==
    \/ Score
    \/ \E key \in VaryKeys : \E v \in VaryValues(key) : ScoreVary(key, v)
    \/ ScoreRepeat

VarySpec == VaryInit /\ [][VaryNext]_vars

\* The example call of the specification's section 8 (quality 80).
ExampleArgs ==
    MkArgs(Fl(80), Gait(Fl(2), Pct(55), Pct(20), Pct(8), None, None, None),
           DefaultAiState, Ped(Fl(55), Fl(50), Fl(50)), Fl(60))

ScoreIdle ==
    /\ args = ExampleArgs
    /\ res = NoRes
    /\ prev = NoCall
    /\ ncalls = 0

SimInit ==
    /\ ScoreIdle
    /\ SimIdle
    /\ MatchIdle
    /\ GaitIdle
    /\ EvalIdle
    /\ ClientIdle

SimNext ==
    \/ \E i \in SimInputs, n \in TrialCounts :
          SimCall([our_mu |-> i.our_mu, entrants |-> i.entrants, n |-> n,
                   sigma |-> i.sigma])
    \/ SimRepeat
    \/ SimTrial
    \/ SimReturn
    \/ OtherDraw

SimSpec == SimInit /\ [][SimNext]_vars

\* One call followed from its entry to its return, the generator having been
\* used by other code before it.
SimCallNext ==
    \/ \E i \in SimInputs, n \in TrialCounts :
          SimCall([our_mu |-> i.our_mu, entrants |-> i.entrants, n |-> n,
                   sigma |-> i.sigma])
    \/ SimTrial
    \/ SimReturn
    \/ OtherDraw

\* A call that entered its for loop keeps executing it: the interpreter runs
\* the loop body and the return statement without waiting on anything.
SimFairSpec ==
    /\ SimInit
    /\ [][SimCallNext]_vars
    /\ WF_vars(SimTrial \/ SimReturn)

MatchInit ==
    /\ ScoreIdle
    /\ SimIdle
    /\ GaitIdle
    /\ EvalIdle
    /\ ClientIdle
    /\ matchArgs \in MatchArgSpace
    /\ matchLoc = NoMatchLoc
    /\ matchRes = NoRes
    /\ matchPrev = NoCall

MatchNext == \E up \in BOOLEAN, upc \in BOOLEAN : MatchCall(up, upc)

MatchSpec == MatchInit /\ [][MatchNext]_vars

MatchPairInit ==
    /\ ScoreIdle
    /\ SimIdle
    /\ GaitIdle
    /\ EvalIdle
    /\ ClientIdle
    /\ matchArgs \in MatchPairArgSpace
    /\ matchLoc = NoMatchLoc
    /\ matchRes = NoRes
    /\ matchPrev = NoCall

MatchPairNext ==
    \/ \E up \in BOOLEAN, upc \in BOOLEAN : MatchCall(up, upc)
    \/ \E key \in {"W", "A"}, v \in PairScores : MatchAgain(key, v)

MatchPairSpec == MatchPairInit /\ [][MatchPairNext]_vars

MatchFullInit ==
    /\ ScoreIdle
    /\ SimIdle
    /\ GaitIdle
    /\ EvalIdle
    /\ ClientIdle
    /\ matchArgs \in MatchFullArgSpace
    /\ matchLoc = NoMatchLoc
    /\ matchRes = NoRes
    /\ matchPrev = NoCall

MatchFullSpec == MatchFullInit /\ [][MatchNext]_vars

GaitInit ==
    /\ ScoreIdle
    /\ SimIdle
    /\ MatchIdle
    /\ GaitIdle
    /\ EvalIdle
    /\ ClientIdle

GaitNext ==
    \/ \E src \in GaitSources, mf \in MaxFramesArgs : GfOpen(src, mf)
    \/ GfRead
    \/ \E scene \in Scenes : GfFinish(scene)

GaitSpec == GaitInit /\ [][GaitNext]_vars

\* extract_gait_features from line 59 on, for a first frame of any size.
RoiInit ==
    /\ ScoreIdle
    /\ SimIdle
    /\ MatchIdle
    /\ EvalIdle
    /\ ClientIdle
    /\ gfPc = "frames"
    /\ gfArgs = [src |-> NoSource, max_frames |-> 240]
    /\ gfLoc \in {Band(h, w) : h \in FrameHeights, w \in FrameWidths}
    /\ gfRes = NoRes

RoiNext == \E part \in Parts : RoiRect(part)

RoiSpec == RoiInit /\ [][RoiNext]_vars

EvalInit ==
    /\ ScoreIdle
    /\ SimIdle
    /\ MatchIdle
    /\ GaitIdle
    /\ evPc = "idle"
    /\ evArgs \in { [video_path |-> v] : v \in EvalVideos }
    /\ evLoc = NoEvLoc
    /\ evRes = NoRes
    /\ ClientIdle

EvalNext ==
    \/ EvStart
    \/ EvExtractOpen
    \/ EvExtractRead
    \/ EvExtractFinish
    \/ EvExtractDone
    \/ EvSignals
    \/ \E ped \in EvalPedigrees, opponents \in EvalOpponents :
            EvPedigree(ped, opponents)
    \/ EvMatch

EvalSpec == EvalInit /\ [][EvalNext]_vars

ClientInit ==
    /\ ScoreIdle
    /\ SimIdle
    /\ MatchIdle
    /\ GaitIdle
    /\ EvalIdle
    /\ vcEnv \in ClientEnvs
    /\ vcSem = 0
    /\ vcPermits = <<>>
    /\ vcPc = [t \in Threads |-> "idle"]
    /\ vcLoc = [t \in Threads |-> NoClientLoc]

ClientNext ==
    \E t \in Threads :
        \/ \E public_url \in BOOLEAN : AnalyzeVideo(t, public_url)
        \/ AcquireTest(t)
        \/ AcquireCreate(t)
        \/ AcquireLoad(t)
        \/ AcquireTake(t)
        \/ \E exit \in AllExits : TryBody(t, exit)
        \/ Release(t)
        \/ CallOver(t)

ClientSpec == ClientInit /\ [][ClientNext]_vars

----------------------------------------------------------------------------
(* Properties of score_v2 *)

In0to100(x) == Within(x, Fl(0), Fl(100))

Returned == res # NoRes

\* Two argument records that differ at most in q.
SameButQ(a, b) == [a EXCEPT !.q = b.q] = b

\* The latest two calls have returned and differ only in the quality.
QualityPair ==
    /\ Returned
    /\ prev # NoCall
    /\ SameButQ(prev.args, args)
    /\ prev.args.q # args.q

CIWidth(r) == Sub(r.total.CI[2], r.total.CI[1])

\* C1: every 0..100 output of score_v2 lies in [0,100], C_vid lies in
\* [0.65, 1.0] and CI.lower <= Total <= CI.upper, for every numeric input
\* (quality, gait signals, paddock axes, confidence and pedigree scores
\* inside or outside their ranges, with or without a match override).
C1_OutputsInRange ==
    Returned =>
        /\ \A k \in {"P", "S", "W", "A", "V"} : In0to100(res.item_scores[k])
        /\ \A k \in {"G", "G_adj", "GaitTotal"} : In0to100(res.gait[k])
        /\ \A k \in {"R_gait", "R_adj", "stress_risk", "paddock_state"} :
              In0to100(res.risk[k])
        /\ In0to100(res.match.M)
        /\ In0to100(res.total.Total)
        /\ In0to100(res.total.CI[1])
        /\ In0to100(res.total.CI[2])
        /\ Within(res.total.C_vid, R(65, 100), Fl(1))
        /\ Le(res.total.CI[1], res.total.Total)
        /\ Le(res.total.Total, res.total.CI[2])

\* A call with quality, paddock axes, pedigree score and match override all
\* outside their ranges has returned, with Total held at 100 by the clamp.
C1_Witness ==
    /\ Returned
    /\ args.q = Fl(130)
    /\ args.ai_state.AiConf = Pct(150)
    /\ args.ped_score = Fl(250)
    /\ args.race_match_override = Fl(150)
    /\ res.total.Total = Fl(100)
    /\ res.match.M = Fl(100)

\* C2: two calls that differ only in q, both qualities in [0,100], return
\* the same Total.
C2_TotalIgnoresQuality ==
    (QualityPair /\ In0to100(prev.args.q) /\ In0to100(args.q)) =>
        prev.res.total.Total = res.total.Total

\* C3: for two qualities 0 <= q1 < q2 <= 100 and otherwise equal arguments the
\* returned interval is strictly wider at q1; the interval is
\* [Total - h, Total + h] clamped to [0,100] with h = 18*(1 - q/100), so it is
\* the single point Total at q = 100 and Total -+ 18 (clamped) at q = 0.
C3_WidthDecreasesWithQuality ==
    /\ (QualityPair /\ In0to100(prev.args.q) /\ In0to100(args.q)) =>
          /\ Lt(prev.args.q, args.q) => Gt(CIWidth(prev.res), CIWidth(res))
          /\ Lt(args.q, prev.args.q) => Lt(CIWidth(prev.res), CIWidth(res))
    /\ (Returned /\ In0to100(args.q)) =>
          LET h == Mul(Fl(18), Sub(Fl(1), Div(args.q, Fl(100))))
          IN  /\ res.total.CI[1] = clamp(Sub(res.total.Total, h), Fl(0), Fl(100))
              /\ res.total.CI[2] = clamp(Add(res.total.Total, h), Fl(0), Fl(100))
              /\ args.q = Fl(100) => CIWidth(res) = Fl(0)
              /\ args.q = Fl(0) => h = Fl(18)

\* Two calls at qualities 0 and 10 have returned, both with an interval cut
\* off at 0 by the clamp, and still report different widths.
C3_Witness ==
    /\ QualityPair
    /\ prev.args.q = Fl(0)
    /\ args.q = Fl(10)
    /\ Lt(prev.res.total.Total, Fl(18))
    /\ prev.res.total.CI[1] = Fl(0)
    /\ res.total.CI[1] = Fl(0)
    /\ Gt(CIWidth(prev.res), CIWidth(res))

\* C4: changing only q leaves every output other than C_vid, GaitTotal and CI
\* unchanged: item scores, G, G_adj, the risk block, M, Total, PlacePct,
\* ContendPct and the clinical flags.
C4_OnlyConfidenceOutputsDependOnQuality ==
    QualityPair =>
        /\ prev.res.item_scores = res.item_scores
        /\ prev.res.gait.G = res.gait.G
        /\ prev.res.gait.G_adj = res.gait.G_adj
        /\ prev.res.risk = res.risk
        /\ prev.res.match = res.match
        /\ prev.res.total.Total = res.total.Total
        /\ prev.res.prob = res.prob
        /\ prev.res.clinical_flags = res.clinical_flags

\* The numbers score_v2 returns.
Numbers(r) ==
    { r.item_scores[k] : k \in {"P", "S", "W", "A", "V"} }
    \cup { r.gait[k] : k \in {"G", "G_adj", "GaitTotal"} }
    \cup { r.risk[k] : k \in {"R_gait", "R_adj", "stress_risk", "paddock_state"} }
    \cup { r.match.M, r.total.Total, r.total.CI[1], r.total.CI[2],
            r.total.C_vid, r.prob.PlaceLogit, r.prob.ContendLogit }

\* The latest two calls have returned and differ in the argument key only.
VaryPair(key) ==
    /\ Returned
    /\ prev # NoCall
    /\ [prev.args EXCEPT ![key] = args[key]] = args
    /\ prev.args[key] # args[key]

\* C14: when q, pitch_hz, stride_index, wobble, asym or speed_proxy is NaN,
\* no number score_v2 returns is NaN and every output stays in its range
\* (the 0..100 outputs in [0,100], C_vid in [0.65, 1]).
C14_NaNInputsAreReplaced ==
    (Returned /\ \E k \in {"q", "pitch_hz", "stride_index", "wobble", "asym",
                            "speed_proxy"} : IsNaN(args[k])) =>
        /\ \A x \in Numbers(res) : ~IsNaN(x)
        /\ \A x \in Numbers(res) \ {res.total.C_vid, res.prob.PlaceLogit,
                                      res.prob.ContendLogit} : In0to100(x)
        /\ Within(res.total.C_vid, R(65, 100), Fl(1))

\* C15: with a match override M = clamp(override, 0, 100), whatever the gait
\* and pedigree arguments are; without one
\* M = clamp(0.45*(0.5*S + 0.5*ped_stamina) + 0.35*ped_surfacefit + 0.20*W,
\* 0, 100), which only stride_index, wobble, ped_stamina and ped_surfacefit
\* can change.
C15_MatchOverrideOrFallback ==
    /\ Returned =>
          res.match.M =
            IF args.race_match_override # None
            THEN clamp(args.race_match_override, Fl(0), Fl(100))
            ELSE clamp(Add(Add(Mul(R(45, 100),
                                   Add(Mul(R(5, 10), res.item_scores.S),
                                       Mul(R(5, 10), args.ped_stamina))),
                               Mul(R(35, 100), args.ped_surfacefit)),
                           Mul(R(20, 100), res.item_scores.W)),
                       Fl(0), Fl(100))
    /\ \A key \in VaryKeys \ {"race_match_override"} :
          (VaryPair(key) /\ args.race_match_override # None) =>
              prev.res.match.M = res.match.M
    /\ \A key \in VaryKeys \ {"race_match_override", "stride_index", "wobble",
                               "ped_stamina", "ped_surfacefit"} :
          (VaryPair(key) /\ args.race_match_override = None) =>
              prev.res.match.M = res.match.M

\* Two calls without an override that differ in stride_index only: the
\* fallback M rose with the stride item score and is below the upper clamp.
C15_Witness ==
    /\ VaryPair("stride_index")
    /\ args.race_match_override = None
    /\ Lt(prev.res.item_scores.S, res.item_scores.S)
    /\ Lt(prev.res.match.M, res.match.M)
    /\ Lt(res.match.M, Fl(100))

\* C16: for the end-to-end example (q 80, pitch_hz 2.0, stride_index 0.55,
\* wobble 0.20, asym 0.08, no speed proxy, no roi_asym, no headbob_ratio,
\* default paddock state, pedigree 55/50/50, match override 60) score_v2
\* returns C_vid = 0.93, M = 60, Total = 44.65724375 and
\* CI = [Total - 3.6, Total + 3.6], and returns the same on the next call.
C16_ExampleIsReproducible ==
    (Returned /\ args = ExampleArgs) =>
        /\ res.total.C_vid = Pct(93)
        /\ res.match.M = Fl(60)
        /\ res.total.Total = R(7145159, 160000)
        /\ res.total.CI = <<Sub(res.total.Total, R(36, 10)),
                            Add(res.total.Total, R(36, 10))>>
        /\ (prev # NoCall /\ prev.args = ExampleArgs) => prev.res = res

\* The example has been scored twice.
C16_Witness ==
    /\ Returned
    /\ args = ExampleArgs
    /\ prev # NoCall
    /\ prev.args = ExampleArgs
    /\ res.total.Total = R(7145159, 160000)

\* C18: GaitTotal = clamp(G_adj - 0.35*R_adj, 0, 100) * C_vid and
\* Total = clamp(0.65*GaitTotal + 0.20*ped_score + 0.15*M - 0.10*R_adj, 0, 100);
\* of two calls that differ in ped_score only, or in the match override
\* only, the one with the larger value has no smaller Total; of two calls
\* that differ only in a clinical signal (headbob_ratio, roi_asym), which
\* moves R_adj and nothing else Total is made of, the one with the larger
\* R_adj has no larger Total.
C18_TotalFormulaAndMonotone ==
    /\ Returned =>
          /\ res.gait.GaitTotal =
                Mul(clamp(Sub(res.gait.G_adj, Mul(R(35, 100), res.risk.R_adj)),
                          Fl(0), Fl(100)),
                    res.total.C_vid)
          /\ res.total.Total =
                clamp(Sub(Add(Add(Mul(R(65, 100), res.gait.GaitTotal),
                                  Mul(R(20, 100), args.ped_score)),
                              Mul(R(15, 100), res.match.M)),
                          Mul(R(10, 100), res.risk.R_adj)),
                      Fl(0), Fl(100))
    /\ (VaryPair("ped_score") /\ Lt(prev.args.ped_score, args.ped_score)) =>
          Le(prev.res.total.Total, res.total.Total)
    /\ (VaryPair("race_match_override") /\ Lt(prev.res.match.M, res.match.M)) =>
          Le(prev.res.total.Total, res.total.Total)
    /\ \A key \in {"headbob_ratio", "roi_asym"} :
          (VaryPair(key) /\ Lt(prev.res.risk.R_adj, res.risk.R_adj)) =>
              /\ prev.res.gait.G_adj = res.gait.G_adj
              /\ prev.res.match.M = res.match.M
              /\ prev.res.total.C_vid = res.total.C_vid
              /\ Ge(prev.res.total.Total, res.total.Total)

\* Two calls that differ in headbob_ratio only: the second is flagged, its
\* R_adj is 10 higher and its Total lower, neither clamped.
C18_Witness ==
    /\ VaryPair("headbob_ratio")
    /\ res.risk.R_adj = Add(prev.res.risk.R_adj, Fl(10))
    /\ Lt(res.total.Total, prev.res.total.Total)
    /\ Gt(res.total.Total, Fl(0))
    /\ Lt(res.total.C_vid, Fl(1))
    /\ Gt(res.gait.GaitTotal, Fl(0))

\* The linear saturation of x between the edges a < b: 0 at or below a,
\* 1 at or above b.
LinSat(x, a, b) == clamp(Div(Sub(x, a), Sub(b, a)), Fl(0), Fl(1))

\* Of two calls that differ in the argument key only, the one with the
\* larger value has no larger (dir = -1) or no smaller (dir = 1) item score.
ItemMonotone(key, item, dir) ==
    (/\ VaryPair(key)
     /\ prev.args[key] # None
     /\ args[key] # None
     /\ Lt(prev.args[key], args[key])) =>
        IF dir = 1
        THEN Le(prev.res.item_scores[item], res.item_scores[item])
        ELSE Ge(prev.res.item_scores[item], res.item_scores[item])

\* C19: P, W and A are 100*(1 - u) and S and V are 100*u, u the linear
\* saturation of the signal between its scoring band edges; so P, W, A are
\* 100 at or below the low edge, 0 at or above the high edge and
\* non-increasing in pitch_hz, wobble, asym, S and V are 0 at or below the
\* low edge, 100 at or above the high edge and non-decreasing in
\* stride_index, speed_proxy; V is 50 when speed_proxy is None.
C19_ItemScoresSaturate ==
    /\ Returned =>
          /\ res.item_scores.P =
                Mul(Fl(100), Sub(Fl(1), LinSat(args.pitch_hz, P0, P1)))
          /\ res.item_scores.W =
                Mul(Fl(100), Sub(Fl(1), LinSat(args.wobble, W0, W1)))
          /\ res.item_scores.A =
                Mul(Fl(100), Sub(Fl(1), LinSat(args.asym, A0, A1)))
          /\ res.item_scores.S = Mul(Fl(100), LinSat(args.stride_index, S0, S1))
          /\ res.item_scores.V =
                IF args.speed_proxy = None THEN Fl(50)
                ELSE Mul(Fl(100), LinSat(args.speed_proxy, V0, V1))
          /\ Le(args.pitch_hz, P0) => res.item_scores.P = Fl(100)
          /\ Ge(args.pitch_hz, P1) => res.item_scores.P = Fl(0)
          /\ Le(args.wobble, W0) => res.item_scores.W = Fl(100)
          /\ Ge(args.wobble, W1) => res.item_scores.W = Fl(0)
          /\ Le(args.asym, A0) => res.item_scores.A = Fl(100)
          /\ Ge(args.asym, A1) => res.item_scores.A = Fl(0)
          /\ Le(args.stride_index, S0) => res.item_scores.S = Fl(0)
          /\ Ge(args.stride_index, S1) => res.item_scores.S = Fl(100)
          /\ (args.speed_proxy # None /\ Le(args.speed_proxy, V0)) =>
                res.item_scores.V = Fl(0)
          /\ (args.speed_proxy # None /\ Ge(args.speed_proxy, V1)) =>
                res.item_scores.V = Fl(100)
    /\ ItemMonotone("pitch_hz", "P", -1)
    /\ ItemMonotone("wobble", "W", -1)
    /\ ItemMonotone("asym", "A", -1)
    /\ ItemMonotone("stride_index", "S", 1)
    /\ ItemMonotone("speed_proxy", "V", 1)

\* Two calls that differ in pitch_hz only, 2.0 and then 2.25, both inside
\* the band: P fell from 50 to 18.75.
C19_Witness ==
    /\ VaryPair("pitch_hz")
    /\ prev.args.pitch_hz = Fl(2)
    /\ args.pitch_hz = Pct(225)
    /\ prev.res.item_scores.P = Fl(50)
    /\ res.item_scores.P = R(1875, 100)

\* headbob_ratio is given and above 1.35
HeadbobAbove(a) ==
    IF a.headbob_ratio = None THEN FALSE ELSE Gt(a.headbob_ratio, R(135, 100))

\* roi_asym is given and its hind value is above 0.14
HindAbove(a) ==
    IF a.roi_asym = None THEN FALSE
    ELSE IF a.roi_asym.hind = None THEN FALSE
    ELSE Gt(a.roi_asym.hind, R(14, 100))

\* 10 if the flag is set, else 0
Boost(flag) == IF flag THEN Fl(10) ELSE Fl(0)

\* C20: R_gait = clamp(0.28*rp + 0.28*ra + 0.22*rw + 0.12*rs
\* + 10*[headbob_suspect] + 10*[hind_asym_suspect], 0, 100) with rp, ra, rw
\* the saturations of pitch_hz, asym, wobble over the risk bands and rs the
\* reversed saturation of stride_index over its risk band, times 100;
\* headbob_suspect iff headbob_ratio is given and > 1.35, hind_asym_suspect
\* iff roi_asym is given and its hind value > 0.14; the returned flags are
\* these conditions; two calls that differ in roi_asym only and agree on
\* hind_asym_suspect return the same numbers, whatever fore_asym_suspect is.
C20_RiskAndClinicalFlags ==
    /\ Returned =>
          /\ res.clinical_flags.headbob_suspect = HeadbobAbove(args)
          /\ res.clinical_flags.hind_asym_suspect = HindAbove(args)
          /\ res.risk.R_gait =
                clamp(Add(Add(Add(Add(Add(
                        Mul(R(28, 100),
                            Mul(Fl(100), LinSat(args.pitch_hz, PR0, PR1))),
                        Mul(R(28, 100),
                            Mul(Fl(100), LinSat(args.asym, AR0, AR1)))),
                        Mul(R(22, 100),
                            Mul(Fl(100), LinSat(args.wobble, WR0, WR1)))),
                        Mul(R(12, 100),
                            Mul(Fl(100),
                                Sub(Fl(1),
                                    LinSat(args.stride_index, SR0, SR1))))),
                        Boost(HeadbobAbove(args))),
                        Boost(HindAbove(args))),
                      Fl(0), Fl(100))
    /\ (/\ VaryPair("roi_asym")
        /\ prev.res.clinical_flags.hind_asym_suspect
              = res.clinical_flags.hind_asym_suspect) =>
          [prev.res EXCEPT !.clinical_flags = res.clinical_flags] = res

\* Both clinical flags are set and R_gait, 62 from the four risk parts plus
\* the two boosts, is 82.
C20_Witness ==
    /\ Returned
    /\ res.clinical_flags.headbob_suspect
    /\ res.clinical_flags.hind_asym_suspect
    /\ res.risk.R_gait = Fl(82)

\* 100 * clamp(0.30*t + 0.25*f + 0.30*co + 0.15*(1 - x), 0, 1), the raw
\* composite of the behavioural axes
RawPaddock(ai) ==
    LET u(v) == clamp(Div(v, Fl(100)), Fl(0), Fl(1))
    IN  Mul(Fl(100),
            clamp(Add(Add(Add(Mul(R(30, 100), u(ai.T)), Mul(R(25, 100), u(ai.F))),
                          Mul(R(30, 100), u(ai.CO))),
                      Mul(R(15, 100), Sub(Fl(1), u(ai.X)))),
                  Fl(0), Fl(1)))

\* |x - 50|
From50(x) == IF Lt(x, Fl(50)) THEN Sub(Fl(50), x) ELSE Sub(x, Fl(50))

\* The latest two calls differ in ai_state.AiConf only.
ConfPair ==
    /\ VaryPair("ai_state")
    /\ [prev.args.ai_state EXCEPT !.AiConf = args.ai_state.AiConf]
          = args.ai_state

\* C21: paddock_state = w*50 + (1 - w)*raw with w = 0.5*(1 - c), c the
\* confidence clamped to [0,1] and raw the composite of the axes; it is raw
\* at confidence 1; of two calls that differ in the confidence only, the one
\* with the higher confidence is no nearer to 50; with every axis at 50 it
\* is 50 whatever the confidence, and G_adj = G.
C21_PaddockStateRegressesToNeutral ==
    /\ Returned =>
          LET ai == args.ai_state
              w == Mul(R(5, 10), Sub(Fl(1), clamp(ai.AiConf, Fl(0), Fl(1))))
          IN  /\ res.risk.paddock_state
                    = Add(Mul(w, Fl(50)), Mul(Sub(Fl(1), w), RawPaddock(ai)))
              /\ ai.AiConf = Fl(1) => res.risk.paddock_state = RawPaddock(ai)
              /\ (\A k \in {"T", "X", "SW", "BR", "CO", "F"} : ai[k] = Fl(50)) =>
                    /\ res.risk.paddock_state = Fl(50)
                    /\ res.gait.G_adj = res.gait.G
    /\ (ConfPair /\ Lt(prev.args.ai_state.AiConf, args.ai_state.AiConf)) =>
          Le(From50(prev.res.risk.paddock_state), From50(res.risk.paddock_state))

\* Two calls that differ in the confidence only, 0 and then 1, axes off
\* neutral: the second paddock_state is the raw composite, farther from 50.
C21_Witness ==
    /\ ConfPair
    /\ prev.args.ai_state.AiConf = Fl(0)
    /\ args.ai_state.AiConf = Fl(1)
    /\ res.risk.paddock_state = RawPaddock(args.ai_state)
    /\ Lt(From50(prev.res.risk.paddock_state), From50(res.risk.paddock_state))

----------------------------------------------------------------------------
(* Properties of simulate_finish_probs *)

SimDone == simPc = "done"

FieldIsEmpty == Len(Opp(simArgs.entrants)) = 0

\* C6: with no opponents (entrants None or empty) the call returns
\* win = top3 = top5 = 1.0, expected_rank = 1.0 and field_size = 1 for every
\* our_mu, n and sigma, without running a trial or drawing a random number.
C6_NoOpponentsIsCertain ==
    (simPc # "idle" /\ FieldIsEmpty) =>
        /\ SimDone
        /\ simRes.win = Fl(1)
        /\ simRes.top3 = Fl(1)
        /\ simRes.top5 = Fl(1)
        /\ simRes.expected_rank = Fl(1)
        /\ simRes.field_size = 1
        /\ loc.i = 0
        /\ loc.ndraws = 0

\* A call with entrants = None, a negative trial count and sigma 10 returned.
C6_Witness ==
    /\ SimDone
    /\ simArgs.entrants.isNone
    /\ simArgs.n = -5
    /\ simArgs.sigma = 10
    /\ simRes.win = Fl(1)
    /\ simRes.field_size = 1

\* C7: after every trial the counters satisfy
\* 0 <= win <= top3 <= top5 <= trials completed, and the returned
\* probabilities satisfy 0 <= win <= top3 <= top5 <= 1.0.
C7_CountersOrdered ==
    /\ simPc # "idle" =>
          /\ 0 <= loc.win
          /\ loc.win <= loc.top3
          /\ loc.top3 <= loc.top5
          /\ loc.top5 <= loc.i
    /\ SimDone =>
          /\ Le(Fl(0), simRes.win)
          /\ Le(simRes.win, simRes.top3)
          /\ Le(simRes.top3, simRes.top5)
          /\ Le(simRes.top5, Fl(1))

\* In the trial loop, with all four counters apart: some trials won, some
\* more in the top 3, some more in the top 5, some outside it.
C7_Witness ==
    /\ simPc = "loop"
    /\ 0 < loc.win
    /\ loc.win < loc.top3
    /\ loc.top3 < loc.top5
    /\ loc.top5 < loc.i

C8_Safe ==
    /\ simPc = "loop" =>
          /\ loc.nn = Max(200, simArgs.n)
          /\ loc.i <= loc.nn
    /\ (SimDone /\ ~FieldIsEmpty) =>
          /\ loc.i = Max(200, simArgs.n)
          /\ simRes.n = loc.i
          /\ simRes.win = R(loc.win, simRes.n)
          /\ simRes.top3 = R(loc.top3, simRes.n)
          /\ simRes.top5 = R(loc.top5, simRes.n)
          /\ simRes.expected_rank = R(loc.rank_sum, simRes.n)

\* Every step taken inside the loop uses up one of the max(200, n) trials or
\* returns.
C8_LoopStepProgresses ==
    simPc = "loop" =>
        \/ /\ simPc' = "loop"
           /\ loc'.nn = loc.nn
           /\ loc'.i = loc.i + 1
        \/ simPc' = "done"

\* C8: with at least one opponent the call runs exactly max(200, n) trials
\* for every requested n (zero and negative included), terminates (a call
\* in its loop always reaches its return, each step of the loop consuming
\* one of the remaining trials), and reports that count as n, the denominator of win, top3,
\* top5 and expected_rank.
C8_TrialsAreMax200n ==
    /\ []C8_Safe
    /\ [][C8_LoopStepProgresses]_vars
    /\ (simPc = "loop") ~> SimDone

\* A call asking for -5 trials against a field of six returned after 200.
C8_Witness ==
    /\ SimDone
    /\ simArgs.n = -5
    /\ loc.m = 6
    /\ loc.i = 200
    /\ simRes.n = 200

\* C9: two calls with identical arguments return identical results, whatever
\* use is made of the process-global generator before or between them (the
\* random source being an argument of the call).
C9_SameArgumentsSameResult ==
    (SimDone /\ simPrev # NoCall /\ simPrev.args = simArgs) =>
        simRes = simPrev.res

\* Of the trials counted in ranks (trials per rank), those with rank <= k.
TrialsUpTo(ranks, k) == SumRange(ranks, 1, Min(k, Len(ranks)))

\* The sum of the ranks of the trials counted in ranks.
RankTotal(ranks) ==
    SumRange([k \in 1..Len(ranks) |-> k * ranks[k]], 1, Len(ranks))

\* C26: win, top3, top5 and rank_sum are functions of the multiset of the
\* subject's ranks alone (the number of trials with rank 1, with rank <= 3,
\* with rank <= 5, and the sum of the ranks), so the order of the trials
\* does not matter; and they are sums over the trials, so counting one part
\* of the trials and the rest separately and adding gives the same.
C26_AggregatesDependOnRankMultiset ==
    (simPc # "idle" /\ ~FieldIsEmpty) =>
        LET all == loc.ranks
            one == [k \in 1..loc.m |-> all[k] \div 2]
            two == [k \in 1..loc.m |-> all[k] - one[k]]
        IN  /\ TrialsUpTo(all, loc.m) = loc.i
            /\ loc.win = TrialsUpTo(all, 1)
            /\ loc.top3 = TrialsUpTo(all, 3)
            /\ loc.top5 = TrialsUpTo(all, 5)
            /\ loc.rank_sum = RankTotal(all)
            /\ loc.win = TrialsUpTo(one, 1) + TrialsUpTo(two, 1)
            /\ loc.top3 = TrialsUpTo(one, 3) + TrialsUpTo(two, 3)
            /\ loc.top5 = TrialsUpTo(one, 5) + TrialsUpTo(two, 5)
            /\ loc.rank_sum = RankTotal(one) + RankTotal(two)
            /\ SimDone =>
                  /\ simRes.win = R(TrialsUpTo(all, 1), loc.nn)
                  /\ simRes.top3 = R(TrialsUpTo(all, 3), loc.nn)
                  /\ simRes.top5 = R(TrialsUpTo(all, 5), loc.nn)
                  /\ simRes.expected_rank = R(RankTotal(all), loc.nn)

\* A call against a field of seven returned with the subject having
\* finished first, fourth or fifth, and sixth or seventh in some trials.
C26_Witness ==
    /\ SimDone
    /\ loc.m = 7
    /\ loc.ranks[1] > 0
    /\ loc.ranks[4] + loc.ranks[5] > 0
    /\ loc.ranks[6] + loc.ranks[7] > 0

\* The opponents whose drawn performance is strictly greater than the
\* subject's.
Beating(perf) == {j \in 2..Len(perf) : perf[j] > perf[1]}

\* The performances with the opponents at positions a and b exchanged.
Swapped(perf, a, b) ==
    [k \in 1..Len(perf) |-> IF k = a THEN perf[b]
                            ELSE IF k = b THEN perf[a] ELSE perf[k]]

\* The subject's rating is at least every opponent's.
SubjectIsBest(mus) == \A k \in 1..Len(mus) : mus[1] >= mus[k]

\* A trial of the loop: the rank it adds to rank_sum is 1 plus the number of
\* opponents strictly above the subject, and it is the rank the code computes
\* for the same performances with any two opponents exchanged.
C27_TrialRank ==
    (simPc = "loop" /\ loc'.i = loc.i + 1) =>
        LET perf == Perf(loc.mus, simArgs.sigma, rng)
            r == loc'.rank_sum - loc.rank_sum
        IN  /\ r = 1 + Cardinality(Beating(perf))
            /\ loc'.ranks = [loc.ranks EXCEPT ![r] = @ + 1]
            /\ \A a, b \in 2..loc.m : Rank(Swapped(perf, a, b)) = r

\* With sigma = 0 and the subject rated at least as high as every opponent
\* the call returns certainty of a win.
C27_BestWithoutNoiseWins ==
    (SimDone /\ simArgs.sigma = 0
             /\ SubjectIsBest(Mus(simArgs.our_mu, simArgs.entrants))) =>
        /\ simRes.win = Fl(1)
        /\ simRes.top3 = Fl(1)
        /\ simRes.top5 = Fl(1)
        /\ simRes.expected_rank = Fl(1)

\* C27: in each trial the subject's rank is 1 plus the number of opponents
\* with a strictly greater drawn performance (ties go to the subject, the
\* order of the opponents does not matter); hence with sigma = 0 and our_mu
\* at least every opponent rating, win = top3 = top5 = expected_rank = 1.
C27_RankCountsStrictlyBetter ==
    /\ [][C27_TrialRank]_vars
    /\ []C27_BestWithoutNoiseWins

\* A call with sigma = 0 against two opponents rated equal to the subject
\* (one of them unrated) ran its trials and returned.
C27_Witness ==
    /\ SimDone
    /\ simArgs.sigma = 0
    /\ loc.m = 3
    /\ \A k \in 1..3 : loc.mus[k] = loc.mus[1]
    /\ loc.i = loc.nn
    /\ simRes.win = Fl(1)

\* C28: after any number of trials, trials_done <= rank_sum <=
\* trials_done * field_size, so 1 <= expected_rank <= field_size; top3 = 1
\* when field_size <= 3 and top5 = 1 when field_size <= 5; field_size is
\* 1 + the number of opponents; an opponent without a rating is simulated
\* with mean 50.
C28_RankSumWithinField ==
    /\ (simPc \in {"loop", "done"} /\ ~FieldIsEmpty) =>
          /\ loc.i <= loc.rank_sum
          /\ loc.rank_sum <= loc.i * loc.m
          /\ loc.m = 1 + Len(Opp(simArgs.entrants))
          /\ \A k \in 1..Len(Opp(simArgs.entrants)) :
                LET e == Opp(simArgs.entrants)[k]
                IN  loc.mus[k + 1] =
                      IF "rating" \in DOMAIN e THEN e.rating ELSE 50
    /\ SimDone =>
          /\ simRes.field_size = 1 + Len(Opp(simArgs.entrants))
          /\ Le(Fl(1), simRes.expected_rank)
          /\ Le(simRes.expected_rank, Fl(simRes.field_size))
          /\ simRes.field_size <= 3 => simRes.top3 = Fl(1)
          /\ simRes.field_size <= 5 => simRes.top5 = Fl(1)

\* A call against a field of five whose last opponent has no rating
\* returned, the subject having finished outside the first three in some
\* trial.
C28_Witness ==
    /\ SimDone
    /\ simRes.field_size = 5
    /\ "rating" \notin DOMAIN simArgs.entrants.list[4]
    /\ loc.mus[5] = 50
    /\ loc.rank_sum > loc.i
    /\ Lt(simRes.top3, Fl(1))
    /\ simRes.top5 = Fl(1)

----------------------------------------------------------------------------
(* compute_match_M properties *)

MatchDone == matchRes # NoRes

\* C10: the returned match_0_100 is clamp(0.42*dist_pref + 0.38*surf_pref +
\* 0.10*stability + 0.10*symmetry + corner_adj + going_adj + turn_adj, 0, 100)
\* rounded to two decimals and lies in [0, 100], for every input: sub-scores
\* outside 0..100 or not numbers, and every surface, distance, corner, going
\* and turn.
C10_MatchIsClampedSumIn0to100 ==
    MatchDone =>
        LET l == matchLoc
            sum == Add(Add(Add(Add(Add(Add(Mul(R(42, 100), l.dist_pref),
                                           Mul(R(38, 100), l.surf_pref)),
                                       Mul(R(10, 100), l.stability)),
                                   Mul(R(10, 100), l.symmetry)),
                               l.corner_adj),
                           l.going_adj),
                       l.turn_adj)
            c == IF Lt(sum, Fl(0)) THEN Fl(0)
                 ELSE IF Gt(sum, Fl(100)) THEN Fl(100) ELSE sum
        IN  /\ matchRes.match_0_100 \in {Round2(c, FALSE), Round2(c, TRUE)}
            /\ Within(matchRes.match_0_100, Fl(0), Fl(100))

\* The latest two calls differ only in the gait sub-score key, both values
\* in [0,100], and the track's corner is tight.
TightPair(key) ==
    /\ matchPrev # NoCall
    /\ matchLoc.corner \in {"tight", "small", "ja_komawari"}
    /\ [matchPrev.args EXCEPT !.gait_item_scores[key] =
                                 matchArgs.gait_item_scores[key]] = matchArgs
    /\ In0to100(matchPrev.args.gait_item_scores[key])
    /\ In0to100(matchArgs.gait_item_scores[key])

\* The sub-score key went up and match_0_100 went down, or the reverse.
Decreased(key) ==
    LET old == matchPrev.args.gait_item_scores[key]
        new == matchArgs.gait_item_scores[key]
    IN  \/ Lt(old, new) /\ Lt(matchRes.match_0_100, matchPrev.res.match_0_100)
        \/ Lt(new, old) /\ Lt(matchPrev.res.match_0_100, matchRes.match_0_100)

\* C11: with a tight corner and everything else fixed, match_0_100 does not
\* decrease when stability (W) rises and does not decrease when symmetry (A)
\* rises, over [0,100], on every surface, distance band, going and turn, the
\* symmetry threshold 45 of the turn penalty included.
C11_TightMatchMonotone ==
    \A key \in {"W", "A"} : TightPair(key) => ~Decreased(key)

\* Two calls on a tight left-handed track with heavy going, symmetry 44 then
\* 46 (across the threshold), the second match strictly higher and neither
\* held by the clamp.
C11_Witness ==
    /\ TightPair("A")
    /\ matchPrev.args.gait_item_scores["A"] = Fl(44)
    /\ matchArgs.gait_item_scores["A"] = Fl(46)
    /\ matchLoc.turn = "left"
    /\ matchLoc.going = "heavy"
    /\ Lt(matchPrev.res.match_0_100, matchRes.match_0_100)
    /\ Lt(matchRes.match_0_100, Fl(100))
    /\ Gt(matchPrev.res.match_0_100, Fl(0))

\* The explicit text when there is one, else the inferred one, else "unknown".
Resolve(explicit, inferred) ==
    IF explicit # NoText THEN Lower(explicit)
    ELSE IF inferred # NoText THEN inferred
    ELSE "unknown"

\* C22: surface, turn, corner and going are each the field of the race
\* conditions when it is given, else the value inferred from the track
\* profile, else "unknown".
C22_RaceFieldsResolveFirst ==
    MatchDone =>
        LET race == matchArgs.race
            tp == matchArgs.track_profile
        IN  /\ matchLoc.surface
                  = Resolve(race.surface, _infer_surface_from_track(tp))
            /\ matchLoc.turn = Resolve(race.turn, _infer_turn_from_track(tp))
            /\ matchLoc.corner = Resolve(race.corner, Lower(tp.corner))
            /\ matchLoc.going = Resolve(race.going, Lower(tp.going))

\* C23: dist_pref is 50 when the distance is missing or <= 0; for
\* 0 < d <= 1400 it is 0.65*ped_speed + 0.35*speed; for 1400 < d <= 1800 the
\* even blend 0.5*ped_speed + 0.5*ped_stamina; for d > 1800
\* 0.25*ped_speed + 0.75*ped_stamina.
C23_DistancePreferenceBands ==
    MatchDone =>
        LET d == matchLoc.dist_m
            blend(wa, a, wb, b) == Add(Mul(wa, a), Mul(wb, b))
        IN  /\ matchArgs.race.distance_m = Missing => matchLoc.dist_pref = Fl(50)
            /\ matchLoc.dist_pref =
                  IF Le(d, Fl(0)) THEN Fl(50)
                  ELSE IF Le(d, Fl(1400))
                  THEN blend(R(65, 100), matchLoc.ped_speed,
                             R(35, 100), matchLoc.speed)
                  ELSE IF Le(d, Fl(1800))
                  THEN blend(R(50, 100), matchLoc.ped_speed,
                             R(50, 100), matchLoc.ped_stamina)
                  ELSE blend(R(25, 100), matchLoc.ped_speed,
                             R(75, 100), matchLoc.ped_stamina)

\* C24: turn_adj is never positive; it is -0.12*(45 - symmetry) when the
\* turn is left or right and symmetry < 45, and exactly 0 otherwise;
\* corner_adj is exactly 0 unless the corner is a tight or a wide one, and
\* going_adj exactly 0 unless the going is adverse.
C24_AdjustmentsOnlyWhenKnown ==
    MatchDone =>
        LET known == matchLoc.turn \in {"left", "right"}
            poor == Lt(matchLoc.symmetry, Fl(45))
        IN  /\ ~Gt(matchLoc.turn_adj, Fl(0))
            /\ (known /\ poor) =>
                  /\ matchLoc.turn_adj
                        = Neg(Mul(R(12, 100), Sub(Fl(45), matchLoc.symmetry)))
                  /\ Lt(matchLoc.turn_adj, Fl(0))
            /\ ~(known /\ poor) => matchLoc.turn_adj = Fl(0)
            /\ matchLoc.corner \notin {"tight", "small", "ja_komawari", "wide",
                                       "large", "ja_oomawari"} =>
                  matchLoc.corner_adj = Fl(0)
            /\ matchLoc.going \notin {"heavy", "soft", "mud", "sloppy",
                                      "ja_furyou", "ja_omo"} =>
                  matchLoc.going_adj = Fl(0)

\* A call with a left turn and symmetry 30 on a track whose corner and
\* going are none of the recognised ones: turn_adj is -1.8, corner_adj and
\* going_adj are 0.
C24_Witness ==
    /\ MatchDone
    /\ matchLoc.turn = "left"
    /\ matchLoc.symmetry = Fl(30)
    /\ matchLoc.turn_adj = R(-18, 10)
    /\ matchLoc.corner = "medium"
    /\ matchLoc.going = "yielding"
    /\ matchLoc.corner_adj = Fl(0)
    /\ matchLoc.going_adj = Fl(0)

----------------------------------------------------------------------------
(* Properties of extract_gait_features *)

GfDone == gfPc = "done"

GfReturned == GfDone /\ "GaitFeatures" \in DOMAIN gfRes

GfRaised(msg) == GfDone /\ gfRes = Raised(msg)

\* C12: a source that cannot be opened makes the call raise "Failed to open
\* video" (VideoUnreadable); fewer than 10 frames read makes it raise the
\* different error "Too few frames" (InsufficientFrames); neither returns a
\* GaitFeatures value; with 10 or more frames read it returns one.
C12_ExtractErrors ==
    GfDone =>
        /\ ~gfArgs.src.opened => GfRaised("Failed to open video")
        /\ (gfArgs.src.opened /\ gfLoc.frames < 10) =>
               GfRaised("Too few frames")
        /\ (gfArgs.src.opened /\ gfLoc.frames >= 10) => GfReturned
        /\ gfArgs.src.opened =>
               gfLoc.frames = Min(gfArgs.src.frames, gfArgs.max_frames)
        /\ Raised("Failed to open video") # Raised("Too few frames")
        /\ ~(GfReturned /\ "raised" \in DOMAIN gfRes)

\* A source of exactly 9 frames was read to its end and refused.
C12_Witness ==
    /\ GfRaised("Too few frames")
    /\ gfArgs.src.opened
    /\ gfArgs.src.frames = 9
    /\ gfLoc.frames = 9

\* C17: when the flow-magnitude series is a sinusoid of period P frames
\* (frequency f = fps/P), with 2 <= P and P shorter than half the series,
\* the returned pitch_hz is within 10% of f, and the lag selected is at
\* least 2 and inside the first half of the series.
C17_CadenceRecoversSinusoid ==
    LET P == gfArgs.src.flow.period
        n == gfLoc.frames - 1
        f == R(FpsOf(gfArgs.src), P)
    IN  (GfReturned /\ gfArgs.src.flow.kind = "sine" /\ 2 <= P /\ 2 * P < n)
        => /\ Within(gfRes.pitch_hz, Mul(R(9, 10), f), Mul(R(11, 10), f))
           /\ gfLoc.peak >= 2
           /\ 2 * gfLoc.peak <= n

----------------------------------------------------------------------------
(* Properties of evaluate_horse *)

EvDone == evPc \in {"returned", "raised"}

\* The gait stage is behind the call: the signals have been read.
EvPastGait == evPc \in {"pedigree", "match", "returned", "raised"}
                 /\ evLoc.q # None

\* C13: evaluate_horse ends by returning a result that holds the sections
\* cv_metrics, pedigree, match, scores and race_probs, whether there is no
\* video, a video whose extraction fails or one whose extraction succeeds;
\* after a failed extraction the gait signals are the neutral ones (q 0,
\* pitch_hz 2.0, stride_index 0.55, wobble 0.30, asym 0.10, no speed proxy).
C13_EvaluateCompletesOnEveryPath ==
    /\ EvDone =>
          /\ evPc = "returned"
          /\ {"cv_metrics", "pedigree", "match", "scores", "race_probs"}
                \subseteq DOMAIN evRes
    /\ (EvPastGait /\ evLoc.gait.issue = "cv_error") =>
          /\ evLoc.q = Fl(0)
          /\ evLoc.pitch_hz = Fl(2)
          /\ evLoc.stride_index = Pct(55)
          /\ evLoc.wobble = Pct(30)
          /\ evLoc.asym = Pct(10)
          /\ evLoc.speed_proxy_f = None

\* Rows top..bottom-1 of a rectangle.
Rows(rect) == rect[2]..(rect[4] - 1)

\* C29: for every frame size the head, trunk and hind rectangles partition
\* the band (columns x0..x1, rows y0..y1) top to bottom: they have the
\* band's columns, their row ranges are pairwise disjoint and contiguous,
\* their union is the band's rows, their heights differ by at most one row
\* and each has at least one row when the band has at least three.
C29_RegionsPartitionBand ==
    /\ gfPc = "frames" =>
          \A part \in DOMAIN gfLoc.rects :
              /\ gfLoc.rects[part][1] = gfLoc.x0
              /\ gfLoc.rects[part][3] = gfLoc.x1
              /\ gfLoc.x0 = (25 * gfLoc.w) \div 100
              /\ gfLoc.x1 = (75 * gfLoc.w) \div 100
    /\ (gfPc = "frames" /\ DOMAIN gfLoc.rects = Parts) =>
          LET head == gfLoc.rects["head"]
              trunk == gfLoc.rects["trunk"]
              hind == gfLoc.rects["hind"]
              band == gfLoc.y0..(gfLoc.y1 - 1)
              height(rect) == rect[4] - rect[2]
          IN  /\ gfLoc.y0 = (15 * gfLoc.h) \div 100
              /\ gfLoc.y1 = (90 * gfLoc.h) \div 100
              /\ Rows(head) \cap Rows(trunk) = {}
              /\ Rows(head) \cap Rows(hind) = {}
              /\ Rows(trunk) \cap Rows(hind) = {}
              /\ Rows(head) \cup Rows(trunk) \cup Rows(hind) = band
              /\ head[2] = gfLoc.y0
              /\ head[2] <= head[4]
              /\ head[4] = trunk[2]
              /\ trunk[2] <= trunk[4]
              /\ trunk[4] = hind[2]
              /\ hind[2] <= hind[4]
              /\ hind[4] = gfLoc.y1
              /\ \A r1, r2 \in {head, trunk, hind} :
                    height(r1) - height(r2) <= 1
              /\ Cardinality(band) >= 3 =>
                    \A r \in {head, trunk, hind} : Rows(r) # {}

\* The three rectangles of a frame whose band has 3k + 2 rows (k >= 1) and
\* at least one column.
C29_Witness ==
    /\ gfPc = "frames"
    /\ DOMAIN gfLoc.rects = Parts
    /\ gfLoc.y1 - gfLoc.y0 >= 5
    /\ (gfLoc.y1 - gfLoc.y0) % 3 = 2
    /\ gfLoc.x1 > gfLoc.x0

\* C25: the returned quality score is below the first frame's exactly when
\* wobble > 0.55, and exactly then "shake" is among the issues; otherwise
\* the score is the first frame's and the issues are the pre-check's; the
\* score is within [0,100].
C25_QualityDropsOnlyOnShake ==
    GfReturned =>
        LET shaky == Gt(gfLoc.wobble, R(55, 100))
            tagged == \E i \in 1..Len(gfRes.quality_issues) :
                          gfRes.quality_issues[i] = "shake"
        IN  /\ Lt(gfRes.quality_score_0_100, gfLoc.q0) <=> shaky
            /\ tagged <=> shaky
            /\ ~shaky => /\ gfRes.quality_score_0_100 = gfLoc.q0
                         /\ gfRes.quality_issues = gfLoc.issues0
            /\ In0to100(gfRes.quality_score_0_100)

----------------------------------------------------------------------------
(* Properties of analyze_video *)

\* The limit the environment sets.
Limit == _max_concurrency(vcEnv.max_concurrency)

\* The threads between _acquire() and _release().
Holders == {t \in Threads : vcPc[t] \in {"try", "finally"}}

\* No analyze_video call is in progress.
Quiet == \A t \in Threads : vcPc[t] \in {"idle", "done"}

\* C30: with a base URL configured, at most AI_MAX_CONCURRENCY callers are
\* between _acquire() and _release() in every interleaving, the first calls
\* that create the semaphore included; a caller that acquired has released
\* exactly once when it leaves (by return or by exception); and the permit
\* count is back at its initial value when no call is in progress.
C30_AtMostLimitCallersInside ==
    vcEnv.base =>
        /\ Cardinality(Holders) <= Limit
        /\ \A t \in Threads :
              /\ t \in Holders => vcLoc[t].acquires = vcLoc[t].releases + 1
              /\ vcPc[t] \in {"idle", "done"} =>
                    vcLoc[t].acquires = vcLoc[t].releases
        /\ (Quiet /\ vcSem # 0) => vcPermits[vcSem] = Limit

============================================================================
